---------------------------- MODULE Spec2Model ----------------------------
(***************************************************************************)
(* A model of the FSL task pipeline: the Parameter Extractor               *)
(* (utils/extract_parameters.py), the Design Synthesizer                   *)
(* (utils/generate_design_files.py), the Job Dispatcher                    *)
(* (utils/run_feat.py, utils/command.py), the Run-Pair Aggregator          *)
(* (utils/generate_higher_level_feat_files.py) and the per-subject section *)
(* of run_pipeline.main that chains them.                                  *)
(*                                                                         *)
(* The filesystem is the only state that outlives a call.  Python's None   *)
(* is the empty sequence for an optional list and the integer NoRun / NA   *)
(* for an optional number.                                                 *)
(***************************************************************************)
EXTENDS Integers, Sequences, FiniteSets, Bags, TLC

\* ------------------------------------------------------------------ bounds
\* Largest run number a scan or a request carries.
MaxRun == 2
\* Largest number of documents handed to one dispatcher call.
MaxJobs == 3
\* The invocations of the pipeline in one behaviour.
MaxInvocations == 2
\* Most first-level output directories the aggregator is run on.
MaxDirs == 4
\* Most tokens in a subjects argument.
MaxTokens == 2

\* --------------------------------------------------------------- sentinels
\* "no run label" (Python None for a run).
NoRun == -1
\* 'N/A' for a repetition time or a frame count missing from the header.
NA == -1

\* ------------------------------------------------------------------- text
\* Strings that are searched or compared by substring are character
\* sequences; a subject or session label is one opaque element.
T_hand == <<"h", "a", "n", "d">>
T_hands == <<"h", "a", "n", "d", "s">>
T_rest == <<"r", "e", "s", "t">>
Tasks == {T_hand, T_hands, T_rest}
Subjects == {"sub-001", "sub-002"}
Sessions == {"ses-001", "ses-002"}
RunLabels == (1..MaxRun) \cup {NoRun}

DigitChars == <<"0", "1", "2", "3", "4", "5", "6", "7", "8", "9">>

RECURSIVE Digits(_)
Digits(n) == IF n < 10 THEN <<DigitChars[n + 1]>>
             ELSE Digits(n \div 10) \o <<DigitChars[(n % 10) + 1]>>

\* format(n, "02d") for n >= 0
Pad2(n) == IF n < 10 THEN <<"0">> \o Digits(n) ELSE Digits(n)

\* Python's `needle in hay` for strings
IsInfix(needle, hay) ==
    \E i \in 0..(Len(hay) - Len(needle)) :
        SubSeq(hay, i + 1, i + Len(needle)) = needle

S_task == <<"t", "a", "s", "k", "-">>
S_run == <<"r", "u", "n", "-">>
S_bold == <<"_", "b", "o", "l", "d", ".", "n", "i", "i", ".", "g", "z">>
S_events == <<"_", "e", "v", "e", "n", "t", "s", ".", "t", "s", "v">>

\* The name of a file of a func directory, by the scan convention
\* sub-*_ses-*_task-*[_run-NN]<suffix>.
FileName(f) ==
    <<f.sub, "_", f.ses, "_">> \o S_task \o f.task
    \o (IF f.run = NoRun THEN <<>> ELSE <<"_">> \o S_run \o Pad2(f.run))
    \o (IF f.bold THEN S_bold ELSE S_events)

\* file.endswith("_bold.nii.gz")
EndsWithBold(name) ==
    /\ Len(name) >= Len(S_bold)
    /\ SubSeq(name, Len(name) - Len(S_bold) + 1, Len(name)) = S_bold

\* The scan stem: what file.replace("_bold.nii.gz", "") leaves, as the
\* entities it spells.
Stem(f) == [sub |-> f.sub, ses |-> f.ses, task |-> f.task, run |-> f.run]
AllStems == [sub : Subjects, ses : Sessions, task : Tasks, run : RunLabels]

\* --------------------------------------------------------------- the tree
\* A file of the input tree; hdr is what nib.load gives for it: it raises,
\* or it has a 4th zoom (tr) and a 4th shape dimension (frames), or not.
MkFile(sub, ses, task, run, bold, raises, tr, frames) ==
    [sub |-> sub, ses |-> ses, task |-> task, run |-> run, bold |-> bold,
     hdr |-> [raises |-> raises, tr |-> tr, frames |-> frames]]

\* Input trees, each the files of its func directories in the order
\* sorted(os.listdir(...)) walks them (subject, session, file name).
Tree1 == << MkFile("sub-001", "ses-001", T_hand, 1, TRUE, FALSE, 2, 200),
            MkFile("sub-001", "ses-001", T_hand, 1, FALSE, TRUE, NA, NA),
            MkFile("sub-001", "ses-001", T_hand, 2, TRUE, TRUE, NA, NA),
            MkFile("sub-001", "ses-001", T_hands, 1, TRUE, FALSE, NA, NA) >>
Tree2 == << MkFile("sub-001", "ses-001", T_hand, NoRun, TRUE, FALSE, 2, 200),
            MkFile("sub-001", "ses-002", T_hand, 1, TRUE, FALSE, 3, 100),
            MkFile("sub-002", "ses-001", T_rest, 1, TRUE, FALSE, 2, 200),
            MkFile("sub-002", "ses-001", T_rest, 2, TRUE, FALSE, 2, 200) >>
Trees == {Tree1, Tree2}

Range(s) == {s[i] : i \in 1..Len(s)}

RECURSIVE Flatten(_)
Flatten(ss) == IF ss = <<>> THEN <<>> ELSE Head(ss) \o Flatten(Tail(ss))

\* ------------------------------------------------ entities (utils/bids.py)
\* Text the Entity Parser reads is a sequence of characters throughout; a
\* string that is None is the empty sequence.
Letters == {"a", "b", "c", "d", "e", "f", "g", "h", "i", "j", "k", "l", "m",
            "n", "o", "p", "q", "r", "s", "t", "u", "v", "w", "x", "y", "z",
            "A", "B", "C", "D", "E", "F", "G", "H", "I", "J", "K", "L", "M",
            "N", "O", "P", "Q", "R", "S", "T", "U", "V", "W", "X", "Y", "Z"}
\* [0-9]
DigitClass == Range(DigitChars)
\* [A-Za-z0-9]
AlnumClass == Letters \cup DigitClass
\* [/_]
Separators == {"/", "_"}

K_sub == <<"s", "u", "b", "-">>
K_ses == <<"s", "e", "s", "-">>

\* Where the longest run of characters of a class that starts at `from`
\* ends (from - 1 when there is none): what <class>+ takes.
RECURSIVE ClassEnd(_, _, _)
ClassEnd(s, from, class) ==
    IF from <= Len(s) /\ s[from] \in class
    THEN ClassEnd(s, from + 1, class) ELSE from - 1

\* The pattern with its leading (?:^|[/_]) left out.
MatchAt_unanchored(s, i, key, class) ==
    /\ i + Len(key) - 1 <= Len(s)
    /\ SubSeq(s, i, i + Len(key) - 1) = key
    /\ ClassEnd(s, i + Len(key), class) >= i + Len(key)
    /\ \/ ClassEnd(s, i + Len(key), class) = Len(s)
       \/ s[ClassEnd(s, i + Len(key), class) + 1] \in Separators

\* The pattern (?:^|[/_])<key>(<class>+)(?=$|[/_]) matches with <key> at
\* position i.  The class holds no separator, so only the longest run can be
\* followed by one.
MatchAt(s, i, key, class) ==
    /\ i = 1 \/ s[i - 1] \in Separators
    /\ i + Len(key) - 1 <= Len(s)
    /\ SubSeq(s, i, i + Len(key) - 1) = key
    /\ ClassEnd(s, i + Len(key), class) >= i + Len(key)
    /\ \/ ClassEnd(s, i + Len(key), class) = Len(s)
       \/ s[ClassEnd(s, i + Len(key), class) + 1] \in Separators

\* pat.search(s): group(1) of the leftmost match, the empty sequence when
\* nothing matches.
entity_search(s, key, class) ==
    LET hits == {i \in 1..Len(s) : MatchAt(s, i, key, class)}
    IN  IF hits = {} THEN <<>>
        ELSE LET i == CHOOSE h \in hits : \A g \in hits : h <= g
             IN  SubSeq(s, i + Len(key), ClassEnd(s, i + Len(key), class))

DigitValue(c) == CHOOSE d \in 0..9 : DigitChars[d + 1] = c

\* int(val), with only the last digit read.
to_int_last_digit(digits) == DigitValue(digits[Len(digits)])

\* int(val) for a text of decimal digits
RECURSIVE to_int(_)
to_int(digits) ==
    IF Len(digits) = 1 THEN DigitValue(digits[1])
    ELSE 10 * to_int(SubSeq(digits, 1, Len(digits) - 1))
         + DigitValue(digits[Len(digits)])

\* parse_bids_entities: the four patterns, each searched on its own.
parse_bids_entities(path) ==
    [subject |-> entity_search(path, K_sub, AlnumClass),
     session |-> entity_search(path, K_ses, AlnumClass),
     task |-> entity_search(path, S_task, AlnumClass),
     run |-> IF entity_search(path, S_run, DigitClass) = <<>> THEN NoRun
             ELSE to_int(entity_search(path, S_run, DigitClass))]

\* str.replace(needle, ""): every occurrence, left to right.
RECURSIVE Remove(_, _)
Remove(needle, s) ==
    IF Len(s) < Len(needle) THEN s
    ELSE IF SubSeq(s, 1, Len(needle)) = needle
         THEN Remove(needle, SubSeq(s, Len(needle) + 1, Len(s)))
         ELSE <<Head(s)>> \o Remove(needle, Tail(s))

\* match_filters, with the run filter left out.
match_filters_without_runs(entities, subject, task_filters, run_filters, session) ==
    /\ subject # <<>> => entities.subject = Remove(K_sub, subject)
    /\ session # <<>> => entities.session = Remove(K_ses, session)
    /\ task_filters # <<>> =>
         entities.task # <<>> /\ entities.task \in Range(task_filters)

\* match_filters, with a null task let through a task filter.
match_filters_null_task_passes(entities, subject, task_filters, run_filters, session) ==
    /\ match_filters_without_runs(entities, subject,
                                  IF entities.task = <<>> THEN <<>>
                                  ELSE task_filters, run_filters, session)
    /\ Len(run_filters) > 0 =>
         entities.run \in Range(run_filters)

\* match_filters: every filter that is given must accept.
match_filters(entities, subject, task_filters, run_filters, session) ==
    IF /\ subject # <<>>
       /\ (entities.subject = <<>> \/ entities.subject # Remove(K_sub, subject))
    THEN FALSE
    ELSE IF /\ session # <<>>
            /\ (entities.session = <<>>
                \/ entities.session # Remove(K_ses, session))
    THEN FALSE
    ELSE IF /\ task_filters # <<>>
            /\ (entities.task = <<>> \/ entities.task \notin Range(task_filters))
    THEN FALSE
    ELSE IF Len(run_filters) > 0
    THEN LET want_no_run == \E i \in 1..Len(run_filters) : run_filters[i] = NoRun
             want_numeric == {run_filters[i] : i \in
                                {k \in 1..Len(run_filters) : run_filters[k] # NoRun}}
         IN  IF entities.run = NoRun THEN want_no_run
             ELSE entities.run \in want_numeric
    ELSE TRUE

\* A scan file name by the convention
\* sub-<s>_ses-<e>_task-<t>[_run-NN]_bold.nii.gz.
ScanName(e) ==
    K_sub \o e.subject \o <<"_">> \o K_ses \o e.session \o <<"_">>
    \o S_task \o e.task
    \o (IF e.run = NoRun THEN <<>> ELSE <<"_">> \o S_run \o Pad2(e.run))
    \o S_bold

\* No call of a function of utils/bids.py or utils/subjects.py is under way.
PfIdle == [fn |-> "none"]
\* No motion-outlier detection call is under way.  tasks: the (input, output)
\* pairs handed to the pool, each with the state of its worker.
MoIdle == [pc |-> "idle", status |-> "none", tasks |-> <<>>, max_workers |-> 1]

\* No invocations are racing.  kind: the stage they run ("records" for the
\* Parameter Extractor, "higher" for the Run-Pair Aggregator); inv: each
\* invocation's position in its loop; log: the writes made, a bag of
\* <<invocation, target path>>; raced: the target
\* paths for which two invocations stood between check and write at once.
CwIdle == [kind |-> "none", inv |-> <<>>, log |-> EmptyBag, raced |-> {}]
\* An invocation that has not reached its loop.  pc: "start", "check" (at
\* the exists-check of the head of queue), "passed" (the check found no file;
\* the write is still to come), "done".
RaceInvocation == [pc |-> "start", queue |-> <<>>]

\* ------------------------------------------ subjects (utils/subjects.py)
\* The text of a subjects argument or of a subjects file is a sequence of
\* units: a comma, a blank, a newline, or a run of other characters taken
\* whole (a subject identifier, a file name).
Whitespace == {" ", "\n"}

\* str.strip()
strip(s) ==
    LET solid == {i \in 1..Len(s) : s[i] \notin Whitespace}
    IN  IF solid = {} THEN <<>>
        ELSE SubSeq(s, CHOOSE i \in solid : \A j \in solid : i <= j,
                       CHOOSE i \in solid : \A j \in solid : i >= j)

\* str.split(sep): every separator splits, so two in a row give an empty
\* piece.
RECURSIVE split(_, _)
split(s, sep) ==
    LET at == {i \in 1..Len(s) : s[i] = sep}
    IN  IF at = {} THEN <<s>>
        ELSE LET i == CHOOSE k \in at : \A j \in at : k <= j
             IN  <<SubSeq(s, 1, i - 1)>> \o split(SubSeq(s, i + 1, Len(s)), sep)

\* re.split(r"[\n,]+", raw): a run of separators splits once.
RECURSIVE re_split(_, _)
re_split(s, seps) ==
    LET at == {i \in 1..Len(s) : s[i] \in seps}
    IN  IF at = {} THEN <<s>>
        ELSE LET i == CHOOSE k \in at : \A j \in at : k <= j
             IN  <<SubSeq(s, 1, i - 1)>>
                 \o re_split(SubSeq(s, ClassEnd(s, i, seps) + 1, Len(s)), seps)

\* [s.strip() for s in pieces if s.strip()]
stripped_nonempty(pieces) ==
    SelectSeq([i \in 1..Len(pieces) |-> strip(pieces[i])], LAMBDA x : x # <<>>)

\* What parse_subjects_arg returns: a list, or None (isList = FALSE).
\* `subs or None`, and the same with the empty list let through.
or_none_keeping_empty(subs) == [isList |-> TRUE, items |-> subs]
or_none(subs) ==
    IF subs = <<>> THEN [isList |-> FALSE, items |-> <<>>]
    ELSE [isList |-> TRUE, items |-> subs]

\* The one path of the model that may be a regular file, and
\* os.path.isfile.
P_subjects_file == <<"subjects.txt">>
isfile(path, files) == files.exists /\ path = P_subjects_file

\* parse_subjects_arg.  subjects_arg is None (kind "none"), a string (kind
\* "str") or a list of strings (kind "list"); files is the filesystem as far
\* as the function looks at it.
parse_subjects_arg(subjects_arg, files) ==
    IF \/ subjects_arg.kind = "none"
       \/ subjects_arg.kind = "str" /\ subjects_arg.text = <<>>
       \/ subjects_arg.kind = "list" /\ subjects_arg.items = <<>>
    THEN [isList |-> FALSE, items |-> <<>>]
    ELSE LET tokens == IF subjects_arg.kind = "str" THEN <<subjects_arg.text>>
                       ELSE stripped_nonempty(subjects_arg.items)
         IN  IF Len(tokens) = 1 /\ isfile(tokens[1], files)
             THEN or_none(stripped_nonempty(re_split(strip(files.raw), {"\n", ","})))
             ELSE or_none(Flatten([i \in 1..Len(tokens) |->
                                     stripped_nonempty(split(tokens[i], ","))]))

\* ----------------------------------------------------------- discard rules
\* The discard-rule configuration load_config returns: the JSON document when
\* it exists (absent keys defaulted), else the built-in default.
DefaultDummy == 2
default_cfg == [dummy_scan_rules |-> <<>>, default_dummy |-> DefaultDummy]
site_cfg == [dummy_scan_rules |-> << [frames |-> 200, dummy |-> 4],
                                     [frames |-> 200, dummy |-> 5],
                                     [frames |-> 100, dummy |-> 0] >>,
             default_dummy |-> 3]
Configs == {default_cfg, site_cfg}

\* get_dummy_scans, with the rule table never consulted.
get_dummy_scans_default_only(num_frames, cfg) == cfg.default_dummy

RECURSIVE get_dummy_scans(_, _)
get_dummy_scans(num_frames, cfg) ==
    IF cfg.dummy_scan_rules = <<>> THEN cfg.default_dummy
    ELSE IF Head(cfg.dummy_scan_rules).frames = num_frames
         THEN Head(cfg.dummy_scan_rules).dummy
         ELSE get_dummy_scans(num_frames,
                  [cfg EXCEPT !.dummy_scan_rules = Tail(cfg.dummy_scan_rules)])

\* ------------------------------------------------------------------ state
VARIABLES
    tree,       \* the input tree: its func files in walking order
    config,     \* the discard-rule configuration on disk
    blockFiles, \* the blocks whose <block>.txt lies beside the template
    argv,       \* the command line every call of a behaviour is made with
    records,    \* configuration records on disk, by scan stem
    ex,         \* the running Parameter Extractor call
    exLast,     \* what the extractor did with the file it handled last
    exPrev,     \* the arguments of the extractor call that ended last
    docs,       \* first-level design documents on disk, by document
    outs,       \* the FEAT output directory each document declares
    featRuns,   \* documents the external binary ran on in this invocation
    ds,         \* the running Design Synthesizer call
    dsLast,     \* what the synthesizer did with the document it handled last
    rf,         \* the running Job Dispatcher call
    cmdFile,    \* the lines of the write-commands target file
    pipe,       \* the running pipeline invocation
    hl,         \* the running Run-Pair Aggregator call
    hdocs,      \* higher-level design documents on disk
    pf,         \* the call of a function of utils/bids.py or utils/subjects.py
    mo,         \* the running motion-outlier detection call
    cw          \* pipeline invocations running at once on one output tree

vars == <<tree, config, blockFiles, argv, records, ex, exLast, exPrev,
          docs, outs, featRuns, ds, dsLast, rf, cmdFile, pipe, hl, hdocs, pf,
          mo, cw>>

\* What no call ever changes.
envVars == <<tree, config, blockFiles, argv>>
\* What the Parameter Extractor leaves alone.
notExtract == <<docs, outs, featRuns, ds, dsLast, rf, cmdFile, pipe, hl, hdocs,
               pf, mo, cw>>
\* What the Design Synthesizer leaves alone.
notDesign == <<records, ex, exLast, exPrev, rf, cmdFile, pipe, hl, hdocs, pf, mo,
              cw>>
\* What the Job Dispatcher leaves alone.
notFeat == <<records, ex, exLast, exPrev, docs, ds, dsLast, pipe, hl, hdocs,
            pf, mo, cw>>
\* What a pipeline invocation leaves alone.
notPipe == <<records, ex, exLast, exPrev, docs, outs, ds, dsLast, rf, cmdFile,
            hl, hdocs, pf, mo, cw>>
\* What the Run-Pair Aggregator leaves alone.
notPair == <<records, ex, exLast, exPrev, docs, outs, featRuns, ds, dsLast, rf,
            cmdFile, pipe, pf, mo, cw>>
\* What a function of utils/bids.py or utils/subjects.py leaves alone.
notPure == <<records, ex, exLast, exPrev, docs, outs, featRuns, ds, dsLast, rf,
            cmdFile, pipe, hl, hdocs, mo, cw>>
\* What motion-outlier detection leaves alone.
notMotion == <<records, ex, exLast, exPrev, docs, outs, featRuns, ds, dsLast,
              rf, cmdFile, pipe, hl, hdocs, pf, cw>>
\* What invocations racing for one output tree leave alone.
notRace == <<ex, exLast, exPrev, docs, outs, featRuns, ds, dsLast, rf, cmdFile,
            pipe, hl, pf, mo>>

\* ---------------------------------------------------- configuration records
Absent == [kind |-> "absent", tr |-> NA, frames |-> NA, discard |-> NA]
\* A record somebody edited by hand (or wrote before this run).
Edited == [kind |-> "edited", tr |-> NA, frames |-> NA, discard |-> NA]
\* The record the extractor writes (the six fixed constants are the same in
\* every record and are left out).
config_content(tr, frames, discard_frames) ==
    [kind |-> "auto", tr |-> tr, frames |-> frames, discard |-> discard_frames]

\* os.path.exists(config_filepath), and the same check with the early
\* `continue` lost.
ConfigExists_unchecked(stem) == FALSE
ConfigExists(stem) == records[stem].kind # "absent"

\* Records that exist before the first call: any set of the tree's scans.
InitRecords(edited) ==
    [s \in AllStems |-> IF s \in edited THEN Edited ELSE Absent]

BoldStems(t) == {Stem(t[i]) : i \in {j \in 1..Len(t) : t[j].bold}}

\* --------------------------------------------------- Parameter Extractor
ExArgs == [subjects_filter : {<<>>, <<"sub-001">>, <<"sub-002", "sub-001">>},
           task_filters : {<<>>, <<T_hand>>, <<T_rest, T_hand>>},
           run_filters : {<<>>, <<1>>, <<2, 1>>, <<NoRun>>}]

\* os.path.isdir(os.path.join(base_dir, s))
SubjectDirs == {tree[i].sub : i \in 1..Len(tree)}

FilesOfSubject(s) == SelectSeq(tree, LAMBDA f : f.sub = s)

\* The files the three nested loops visit, in order.
ExtractOrder(subjects_filter) ==
    IF subjects_filter # <<>>
    THEN Flatten([i \in 1..Len(subjects_filter) |->
                    IF subjects_filter[i] \in SubjectDirs
                    THEN FilesOfSubject(subjects_filter[i]) ELSE <<>>])
    ELSE tree

\* any(f"task-{t}" in file for t in task_filters)
TaskFilterHit(name, task_filters) ==
    \E i \in 1..Len(task_filters) : IsInfix(S_task \o task_filters[i], name)

\* any(f"run-{int(r):02d}" in file for r in run_filters): "hit", "miss", or
\* "raise" when int(None) is evaluated before a hit.
RECURSIVE RunFilterAny(_, _)
RunFilterAny(name, run_filters) ==
    IF run_filters = <<>> THEN "miss"
    ELSE IF Head(run_filters) = NoRun THEN "raise"
    ELSE IF IsInfix(S_run \o Pad2(Head(run_filters)), name) THEN "hit"
    ELSE RunFilterAny(name, Tail(run_filters))

\* What the loop body decides for one file before touching the record:
\* "skip" (a filter or the suffix rejects it), "raise" or "scan".
Selection(f, args) ==
    LET name == FileName(f) IN
    IF args.task_filters # <<>> /\ ~TaskFilterHit(name, args.task_filters)
    THEN "skip"
    ELSE IF args.run_filters # <<>>
            /\ RunFilterAny(name, args.run_filters) = "raise"
    THEN "raise"
    ELSE IF args.run_filters # <<>>
            /\ RunFilterAny(name, args.run_filters) = "miss"
    THEN "skip"
    ELSE IF EndsWithBold(name) THEN "scan" ELSE "skip"

NoLast == [acted |-> FALSE, stem |-> CHOOSE s \in AllStems : TRUE,
           existed |-> FALSE, loaded |-> FALSE, wrote |-> FALSE]
\* pc: "idle" or "run"; status: how the last call ended ("none" before any,
\* "returned", "raised").
ExIdle == [pc |-> "idle", status |-> "none", args |-> CHOOSE a \in ExArgs : TRUE,
           queue |-> <<>>, written |-> {}, cfg |-> default_cfg]

\* extract_and_write_scan_info is entered: the configuration is loaded and
\* the files to visit are listed.
extract_enter(args) ==
    /\ ex.pc = "idle"
    /\ ex' = [pc |-> "run", status |-> "none", args |-> args,
              queue |-> ExtractOrder(args.subjects_filter),
              written |-> {}, cfg |-> config]
    /\ exLast' = NoLast
    /\ UNCHANGED <<records, exPrev>>

\* The files left to visit once the header of the first has raised: with the
\* exception let out of the loops, none.
rest_after_header_error_abort(queue) == <<>>
\* The except clause prints the error; the loops go on with the next file.
rest_after_header_error(queue) == Tail(queue)

\* One iteration of the file loop.
extract_file ==
    /\ ex.pc = "run"
    /\ ex.queue # <<>>
    /\ LET f == Head(ex.queue)
           stem == Stem(f)
           sel == Selection(f, ex.args)
           frames == f.hdr.frames
           discard_frames == IF frames # NA
                             THEN get_dummy_scans(frames, ex.cfg)
                             ELSE ex.cfg.default_dummy
           existed == records[stem].kind # "absent"
       IN
       CASE sel = "raise" ->
              \* TypeError from int(None): the call ends here.
              /\ ex' = [ex EXCEPT !.pc = "idle", !.status = "raised",
                                  !.queue = <<>>]
              /\ exPrev' = <<ex.args>>
              /\ exLast' = NoLast
              /\ UNCHANGED records
         [] sel = "skip" ->
              /\ ex' = [ex EXCEPT !.queue = Tail(@)]
              /\ exLast' = NoLast
              /\ UNCHANGED <<records, exPrev>>
         [] sel = "scan" /\ ConfigExists(stem) ->
              /\ ex' = [ex EXCEPT !.queue = Tail(@)]
              /\ exLast' = [acted |-> TRUE, stem |-> stem, existed |-> existed,
                            loaded |-> FALSE, wrote |-> FALSE]
              /\ UNCHANGED <<records, exPrev>>
         [] sel = "scan" /\ ~ConfigExists(stem) /\ f.hdr.raises ->
              \* nib.load raises; the except clause logs and goes on.
              /\ ex' = [ex EXCEPT !.queue = rest_after_header_error(@)]
              /\ exLast' = [acted |-> TRUE, stem |-> stem, existed |-> existed,
                            loaded |-> TRUE, wrote |-> FALSE]
              /\ UNCHANGED <<records, exPrev>>
         [] sel = "scan" /\ ~ConfigExists(stem) /\ ~f.hdr.raises ->
              /\ records' = [records EXCEPT ![stem] =
                               config_content(f.hdr.tr, frames, discard_frames)]
              /\ ex' = [ex EXCEPT !.queue = Tail(@),
                                  !.written = @ \cup {stem}]
              /\ exLast' = [acted |-> TRUE, stem |-> stem, existed |-> existed,
                            loaded |-> TRUE, wrote |-> TRUE]
              /\ UNCHANGED exPrev

\* The loops are exhausted and the call returns.
extract_return ==
    /\ ex.pc = "run"
    /\ ex.queue = <<>>
    /\ ex' = [ex EXCEPT !.pc = "idle", !.status = "returned"]
    /\ exPrev' = <<ex.args>>
    /\ UNCHANGED <<records, exLast>>

\* The extractor run on its own (extract_parameters.main).
ExtractBegin == extract_enter(argv) /\ UNCHANGED <<envVars, notExtract>>
ExtractFile == extract_file /\ UNCHANGED <<envVars, notExtract>>
ExtractEnd == extract_return /\ UNCHANGED <<envVars, notExtract>>

\* ----------------------------------------------------- design documents
Blocks == {"standard", "A", "B"}
AllDocs == [sub : Subjects, ses : Sessions, task : Tasks, run : 1..MaxRun,
            block : Blocks]

\* A document's text, as far as it is read back: the parameters rendered into
\* it, whether it carries a `set fmri(outputdir)` line, the output directory
\* that line declares and the custom design file it names.
NoDoc == [kind |-> "absent", params |-> Absent, outdir |-> FALSE,
          output_directory |-> <<>>, custom_design_file |-> ""]
rendered_fsf(config_params, feat_directory, custom_design_file_str) ==
    [kind |-> "fsf", params |-> config_params, outdir |-> TRUE,
     output_directory |-> feat_directory,
     custom_design_file |-> custom_design_file_str]

\* feat_directory, with the analysis (block) level left out of the path.
feat_directory_without_block(d) ==
    <<"fsl_feat_v6.0.7.4", d.sub, d.ses, d.sub, "_", d.ses, "_">>
    \o S_task \o d.task \o <<"_">> \o S_run \o Pad2(d.run)

\* The output directory generate_fsf has a block's document declare:
\* fsl_feat_v6.0.7.4/<block>/space-<space>/<subject>/<session>/<stem>.
feat_directory(d) ==
    <<"fsl_feat_v6.0.7.4", d.block, d.sub, d.ses, d.sub, "_", d.ses, "_">>
    \o S_task \o d.task \o <<"_">> \o S_run \o Pad2(d.run)

\* <block>.txt beside the template when it exists, else the empty string.
custom_design_file_str(block) ==
    IF block \in blockFiles THEN <<block, ".txt">> ELSE ""

\* The document's file name: the block is appended unless it is "standard".
output_fsf_filename(d) ==
    <<d.sub, "_", d.ses, "_">> \o S_task \o d.task \o <<"_">> \o S_run
    \o Pad2(d.run)
    \o (IF d.block # "standard" THEN <<"_", d.block>> ELSE <<>>)
    \o <<".fsf">>

\* What a FEAT output directory holds.
Markers == {"design.fsf", "stats", "filtered_func_data.nii.gz", "report.html"}
NoDir == [dir |-> FALSE, has |-> {}]
OutFinished == [dir |-> TRUE, has |-> Markers]
OutFailed == [dir |-> TRUE, has |-> {"design.fsf", "report.html"}]

feat_is_complete(outdir) ==
    /\ outdir.dir
    /\ "design.fsf" \in outdir.has
    /\ "stats" \in outdir.has
    /\ \/ "filtered_func_data.nii.gz" \in outdir.has
       \/ "report.html" \in outdir.has

\* The external binary `feat <document>` has run to its end with exit code rc.
FeatOutcome(rc) == IF rc = 0 THEN OutFinished ELSE OutFailed

\* --------------------------------------------------- Design Synthesizer
SynthArgs == [task : {T_hand, T_rest},
              custom_block : {<<>>, <<"A", "B">>},
              subjects : {<<>>, <<"sub-001">>},
              runs : {<<1>>, <<2, 1>>, <<NoRun>>}]

SessionDirs(s) == {tree[i].ses : i \in {j \in 1..Len(tree) : tree[j].sub = s}}

Perms(S) == {p \in [1..Cardinality(S) -> S] : Range(p) = S}

RECURSIVE Dedup(_)
Dedup(q) == IF q = <<>> THEN <<>>
            ELSE <<Head(q)>> \o SelectSeq(Dedup(Tail(q)), LAMBDA x : x # Head(q))

\* parse_subjects: the subject/session directories to visit.  A listed
\* subject's sessions come in glob order (any order); without a list the
\* sorted sub-*/ses-* glob is used.
RECURSIVE GlobOrders(_)
GlobOrders(subjects) ==
    IF subjects = <<>> THEN {<<>>}
    ELSE {[i \in 1..Len(p) |-> [sub |-> Head(subjects), ses |-> p[i]]] \o rest :
            p \in Perms(SessionDirs(Head(subjects))),
            rest \in GlobOrders(Tail(subjects))}

parse_subjects(subjects) ==
    IF subjects # <<>> THEN GlobOrders(subjects)
    ELSE {Dedup([i \in 1..Len(tree) |-> [sub |-> tree[i].sub, ses |-> tree[i].ses]])}

\* The (subject, session, run) combinations main visits, in order.
Combos(subject_dirs, runs) ==
    Flatten([i \in 1..Len(subject_dirs) |->
               [j \in 1..Len(runs) |->
                  [sub |-> subject_dirs[i].sub, ses |-> subject_dirs[i].ses,
                   run |-> runs[j]]]])

ComboStem(c, task) == [sub |-> c.sub, ses |-> c.ses, task |-> task, run |-> c.run]
ComboDoc(c, task, block) ==
    [sub |-> c.sub, ses |-> c.ses, task |-> task, run |-> c.run, block |-> block]

NoCombo == [sub |-> "", ses |-> "", run |-> NoRun]
NoDsLast == [acted |-> FALSE, doc |-> CHOOSE d \in AllDocs : TRUE,
             existed |-> FALSE, wrote |-> FALSE]
\* What main returns: a list of paths, or None (isList = FALSE).
ReturnsNone == [isList |-> FALSE, items |-> <<>>]
DsIdle == [pc |-> "idle", status |-> "none", args |-> CHOOSE a \in SynthArgs : TRUE,
           combos |-> <<>>, queue |-> <<>>, cur |-> NoCombo, blocks |-> <<>>,
           params |-> Absent, visited |-> {}, parsed |-> {}, new |-> <<>>,
           wrote |-> <<>>,
           ret |-> ReturnsNone]

\* main is entered and lists the subject/session directories.
design_enter(args) ==
    /\ ds.pc = "idle"
    /\ \E subject_dirs \in parse_subjects(args.subjects) :
         ds' = [DsIdle EXCEPT !.pc = "main", !.args = args,
                              !.combos = Combos(subject_dirs, args.runs),
                              !.queue = Combos(subject_dirs, args.runs)]
    /\ dsLast' = NoDsLast
    /\ UNCHANGED <<docs, outs>>

\* One iteration of main's run loop, up to the call of generate_fsf.
design_combo ==
    /\ ds.pc = "main"
    /\ ds.queue # <<>>
    /\ LET c == Head(ds.queue) IN
       IF c.run = NoRun
       THEN \* TypeError from format(None, "02d"): main ends here.
            ds' = [ds EXCEPT !.pc = "idle", !.status = "raised", !.queue = <<>>]
       ELSE IF ConfigExists(ComboStem(c, ds.args.task))
       THEN \* generate_fsf parses the record, then loops over the blocks.
            ds' = [ds EXCEPT !.pc = "write", !.cur = c,
                             !.params = records[ComboStem(c, ds.args.task)],
                             !.blocks = IF ds.args.custom_block = <<>>
                                        THEN <<"standard">>
                                        ELSE ds.args.custom_block,
                             !.visited = @ \cup {c},
                             !.parsed = @ \cup {c}]
       ELSE \* the warning; the next run is tried.
            ds' = [ds EXCEPT !.queue = Tail(@), !.visited = @ \cup {c}]
    /\ dsLast' = NoDsLast
    /\ UNCHANGED <<docs, outs, featRuns>>

\* generate_fsf renders and writes the document of the next block.
design_write ==
    /\ ds.pc = "write"
    /\ LET doc == ComboDoc(ds.cur, ds.args.task, Head(ds.blocks))
           existed == docs[doc].kind # "absent"
       IN
       /\ docs' = [docs EXCEPT ![doc] = rendered_fsf(ds.params, feat_directory(doc),
                                                    custom_design_file_str(doc.block))]
       /\ dsLast' = [acted |-> TRUE, doc |-> doc, existed |-> existed,
                     wrote |-> TRUE]
       /\ ds' = [ds EXCEPT !.pc = "feat",
                           !.new = IF existed THEN @ ELSE Append(@, doc),
                           !.wrote = Append(@, doc)]
    /\ UNCHANGED <<outs, featRuns>>

\* generate_fsf runs `feat` on the document it has just written and waits
\* for it; a non-zero exit is caught and logged.
design_feat ==
    /\ ds.pc = "feat"
    /\ LET doc == ComboDoc(ds.cur, ds.args.task, Head(ds.blocks)) IN
       /\ \E rc \in {0, 1} : outs' = [outs EXCEPT ![doc] = FeatOutcome(rc)]
       /\ featRuns' = featRuns \cup {doc}
       /\ ds' = IF Tail(ds.blocks) = <<>>
                THEN [ds EXCEPT !.pc = "main", !.blocks = <<>>, !.queue = Tail(@)]
                ELSE [ds EXCEPT !.pc = "write", !.blocks = Tail(@)]
    /\ UNCHANGED <<docs, dsLast>>

\* main falls off its end: it returns None.
design_return ==
    /\ ds.pc = "main"
    /\ ds.queue = <<>>
    /\ ds' = [ds EXCEPT !.pc = "idle", !.status = "returned", !.ret = ReturnsNone]
    /\ UNCHANGED <<docs, outs, featRuns, dsLast>>

\* ------------------------------------------------------- Job Dispatcher
\* The empty string among the paths handed to the dispatcher.
EmptyPath == [sub |-> "", ses |-> "", task |-> <<>>, run |-> NoRun, block |-> ""]

\* The line write_feat_commands appends for a document.
CommandLine(p) == <<"feat", p>>

\* feat_outputdir_from_fsf: the document is read; None (FALSE) when it does
\* not exist or has no outputdir line.
feat_outputdir_from_fsf(p) == docs[p].kind = "fsf" /\ docs[p].outdir

\* The test of _run_single_feat that ends the job before run_cmd, and the
\* same test with the force flag left out.
should_skip_ignoring_force(p, force) ==
    feat_outputdir_from_fsf(p) /\ feat_is_complete(outs[p])
should_skip(p, force) ==
    feat_outputdir_from_fsf(p) /\ feat_is_complete(outs[p]) /\ ~force

\* A job of the pool.  st: "queued", "exec" (the external process runs) or
\* "done"; decision: "skip" or "run" once _run_single_feat has decided;
\* started: an external process was started; rc: its exit code; seen: the
\* output directory the document declared, as found when the job decided.
NewJob(p) == [doc |-> p, st |-> "queued", decision |-> "none", started |-> FALSE,
              rc |-> 0, collected |-> FALSE, declared |-> FALSE, seen |-> NoDir]

RfIdle == [pc |-> "idle", status |-> "none", jobs |-> <<>>, error |-> <<>>,
           max_workers |-> 1, dry_run |-> FALSE, force |-> FALSE,
           emit |-> FALSE, paths |-> <<>>, before |-> <<>>]

\* write_feat_commands: the lines appended to the target, one for each path
\* that is not the empty string; and the same without that test.
write_feat_commands_every_path(fsf_paths) ==
    [i \in 1..Len(fsf_paths) |-> CommandLine(fsf_paths[i])]
write_feat_commands(fsf_paths) ==
    LET kept == SelectSeq(fsf_paths, LAMBDA p : p # EmptyPath)
    IN [i \in 1..Len(kept) |-> CommandLine(kept[i])]

\* run_cmd: with dry_run the command is logged and a successful process
\* object is returned without starting a process ("mimic"); else the
\* process is started ("subprocess").  Second, run_cmd without the test.
run_cmd_without_dry_run(dry_run) == "subprocess"
run_cmd(dry_run) == IF dry_run THEN "mimic" ELSE "subprocess"

\* run_feat.main is entered.  With a write-commands target the command lines
\* are appended and the call returns; else the non-empty paths are all
\* submitted to the pool (an empty list returns at once).
feat_main_enter(fsf_paths, max_workers, write_commands, dry_run, force) ==
    /\ rf.pc = "idle"
    /\ LET fsf_list == SelectSeq(fsf_paths, LAMBDA p : p # EmptyPath)
           call == [RfIdle EXCEPT !.max_workers = max_workers,
                                  !.dry_run = dry_run, !.force = force,
                                  !.emit = write_commands, !.paths = fsf_paths,
                                  !.before = cmdFile]
       IN
       IF write_commands
       THEN /\ cmdFile' = cmdFile \o write_feat_commands(fsf_paths)
            /\ rf' = [call EXCEPT !.status = "returned"]
       ELSE /\ UNCHANGED cmdFile
            /\ rf' = IF fsf_list = <<>>
                     THEN [call EXCEPT !.status = "returned"]
                     ELSE [call EXCEPT !.pc = "pool",
                                       !.jobs = [i \in 1..Len(fsf_list) |->
                                                   NewJob(fsf_list[i])]]
    /\ UNCHANGED outs

Running == {i \in 1..Len(rf.jobs) : rf.jobs[i].st = "exec"}

\* A pool thread takes the next submitted job and runs _run_single_feat up to
\* the point where the external process has been started (run_cmd), or to
\* its end when the job is skipped or the call is a dry run.
feat_job_start(i) ==
    /\ rf.pc \in {"pool", "raising"}
    /\ rf.jobs[i].st = "queued"
    /\ \A j \in 1..(i - 1) : rf.jobs[j].st # "queued"
    /\ Cardinality(Running) < rf.max_workers
    /\ LET p == rf.jobs[i].doc
           saw == [declared |-> feat_outputdir_from_fsf(p),
                   seen |-> IF feat_outputdir_from_fsf(p) THEN outs[p] ELSE NoDir]
       IN
       IF should_skip(p, rf.force)
       THEN /\ rf' = [rf EXCEPT !.jobs[i] =
                        [@ EXCEPT !.st = "done", !.decision = "skip",
                                  !.declared = saw.declared, !.seen = saw.seen]]
            /\ UNCHANGED featRuns
       ELSE IF run_cmd(rf.dry_run) = "mimic"
       THEN /\ rf' = [rf EXCEPT !.jobs[i] =
                        [@ EXCEPT !.st = "done", !.decision = "run",
                                  !.declared = saw.declared, !.seen = saw.seen]]
            /\ UNCHANGED featRuns
       ELSE /\ rf' = [rf EXCEPT !.jobs[i] =
                        [@ EXCEPT !.st = "exec", !.decision = "run",
                                  !.started = TRUE,
                                  !.declared = saw.declared, !.seen = saw.seen]]
            /\ featRuns' = featRuns \cup {p}
    /\ UNCHANGED <<outs, cmdFile>>

\* The external process of a job exits; a non-zero exit code becomes the
\* CalledProcessError kept in the job's future.
feat_job_exit(i) ==
    /\ rf.pc \in {"pool", "raising"}
    /\ rf.jobs[i].st = "exec"
    /\ \E rc \in {0, 1} :
         /\ rf' = [rf EXCEPT !.jobs[i] = [@ EXCEPT !.st = "done", !.rc = rc]]
         /\ outs' = [outs EXCEPT ![rf.jobs[i].doc] = FeatOutcome(rc)]
    /\ UNCHANGED <<featRuns, cmdFile>>

\* The as_completed loop takes a finished future: its result is read, and a
\* CalledProcessError is turned into the RuntimeError that leaves the loop.
feat_collect(i) ==
    /\ rf.pc = "pool"
    /\ rf.jobs[i].st = "done"
    /\ ~rf.jobs[i].collected
    /\ rf' = IF rf.jobs[i].rc # 0
             THEN [rf EXCEPT !.pc = "raising", !.error = <<rf.jobs[i].doc>>,
                             !.jobs[i].collected = TRUE]
             ELSE [rf EXCEPT !.jobs[i].collected = TRUE]
    /\ UNCHANGED <<outs, featRuns, cmdFile>>

\* The with-block left by the RuntimeError with no wait for the jobs that
\* are still queued or running.
feat_main_leave_without_wait ==
    /\ \/ rf.pc = "pool" /\ \A i \in 1..Len(rf.jobs) : rf.jobs[i].collected
       \/ rf.pc = "raising"
    /\ rf' = [rf EXCEPT !.pc = "idle",
                        !.status = IF rf.pc = "raising" THEN "raised"
                                   ELSE "returned"]
    /\ UNCHANGED <<outs, featRuns, cmdFile>>

\* The with-block is left: the executor's shutdown waits for every submitted
\* job, then the call returns, or the RuntimeError goes to the caller.
feat_main_leave ==
    /\ \/ rf.pc = "pool" /\ \A i \in 1..Len(rf.jobs) : rf.jobs[i].collected
       \/ rf.pc = "raising"
    /\ \A i \in 1..Len(rf.jobs) : rf.jobs[i].st = "done"
    /\ rf' = [rf EXCEPT !.pc = "idle",
                        !.status = IF rf.pc = "raising" THEN "raised"
                                   ELSE "returned"]
    /\ UNCHANGED <<outs, featRuns, cmdFile>>

\* The dispatcher run on its own (run_feat.main), once per behaviour, on the
\* command line argv.
FeatBegin ==
    /\ argv.prog = "run_feat"
    /\ rf.status = "none"
    /\ feat_main_enter(argv.fsf_paths, argv.max_workers, argv.write_commands,
                       argv.dry_run, argv.force)
    /\ featRuns' = {}
    /\ UNCHANGED <<envVars, notFeat>>
FeatJobStart == \E i \in 1..Len(rf.jobs) :
    feat_job_start(i) /\ UNCHANGED <<envVars, notFeat>>
FeatJobExit == \E i \in 1..Len(rf.jobs) :
    feat_job_exit(i) /\ UNCHANGED <<envVars, notFeat>>
FeatCollect == \E i \in 1..Len(rf.jobs) :
    feat_collect(i) /\ UNCHANGED <<envVars, notFeat>>
FeatEnd == feat_main_leave /\ UNCHANGED <<envVars, notFeat>>

\* ------------------------------------------------------------ pipeline
\* _parse_runs: the token 'none' alone gives [None]; 'none' among other
\* tokens raises ValueError; numeric tokens are converted in order.
parse_runs_raises(run_args) == NoRun \in Range(run_args) /\ Len(run_args) # 1

\* _normalize_subjects: each token is split on commas (a token is the list
\* of the identifiers it holds); no identifier at all gives None (<<>>).
normalize_subjects(subjects_arg) == Flatten(subjects_arg)

\* The subjects the per-subject loop iterates over: the given list, or else
\* the sorted sub-* directories of the input directory.
subject_iter(subjects_arg) ==
    IF normalize_subjects(subjects_arg) # <<>>
    THEN normalize_subjects(subjects_arg)
    ELSE Dedup([i \in 1..Len(tree) |-> tree[i].sub])

\* The keyword arguments run_motion_outliers.main accepts, and those the
\* pipeline passes to it.
motion_outliers_keywords == {"max_workers", "task_filters", "run_filters"}
pipeline_motion_keywords == {"log_file", "dry_run", "force"}

\* A pipeline invocation.  calls: the invocations started so far; log: the
\* lines appended to the subjects' pipeline.log files; invoked: the stage
\* calls this invocation has made, each with the subject it was made for.
PipeIdle == [pc |-> "idle", status |-> "none", error |-> "none", calls |-> 0,
             subjects |-> <<>>, log |-> <<>>, invoked |-> <<>>]

\* run_pipeline.main up to the per-subject loop: the arguments are parsed
\* and the subjects determined; with no subject the loop body never runs
\* and main returns.
pipe_enter(args) ==
    /\ pipe.pc = "idle"
    /\ pipe' =
         LET call == [pipe EXCEPT !.calls = @ + 1, !.error = "none",
                                  !.subjects = <<>>, !.invoked = <<>>]
         IN IF parse_runs_raises(args.run)
            THEN [call EXCEPT !.status = "raised", !.error = "ValueError"]
            ELSE IF subject_iter(args.subjects) = <<>>
            THEN [call EXCEPT !.status = "returned"]
            ELSE [call EXCEPT !.pc = "begin_subject", !.status = "running",
                              !.subjects = subject_iter(args.subjects)]
    /\ featRuns' = {}

\* The loop body opens: the subject's Begin line is appended to its log.
pipe_begin_subject ==
    /\ pipe.pc = "begin_subject"
    /\ pipe' = [pipe EXCEPT !.pc = "motion_outliers",
                            !.log = @ \o <<<<Head(pipe.subjects), "Begin">>>>]
    /\ UNCHANGED featRuns

\* run_motion_outliers_main is called with log_file, dry_run and force:
\* the call raises TypeError for a keyword the function does not take, and
\* the exception leaves main.
pipe_motion_outliers ==
    /\ pipe.pc = "motion_outliers"
    /\ pipe' = IF pipeline_motion_keywords \subseteq motion_outliers_keywords
               THEN [pipe EXCEPT !.pc = "synthstrip",
                                 !.invoked = Append(@, <<"motion_outliers",
                                                         Head(pipe.subjects)>>)]
               ELSE [pipe EXCEPT !.pc = "idle", !.status = "raised",
                                 !.error = "TypeError",
                                 !.invoked = Append(@, <<"motion_outliers",
                                                         Head(pipe.subjects)>>)]
    /\ UNCHANGED featRuns

\* The process is interrupted while an invocation runs.
pipe_interrupt ==
    /\ pipe.pc # "idle"
    /\ pipe' = [pipe EXCEPT !.pc = "idle", !.status = "interrupted"]
    /\ UNCHANGED featRuns

\* The pipeline run from its command line argv, MaxInvocations times at most.
PipeBegin ==
    /\ argv.prog = "run_pipeline"
    /\ pipe.calls < MaxInvocations
    /\ pipe_enter(argv)
    /\ UNCHANGED <<envVars, notPipe>>
PipeBeginSubject == pipe_begin_subject /\ UNCHANGED <<envVars, notPipe>>
PipeMotionOutliers == pipe_motion_outliers /\ UNCHANGED <<envVars, notPipe>>
PipeInterrupt == pipe_interrupt /\ UNCHANGED <<envVars, notPipe>>

\* -------------------------------------------------- Run-Pair Aggregator
\* The first-level output directories below an input directory: the
\* directories of one analysis block, or of every block ("all").
FeatDirs(input_directory) ==
    {d \in AllDocs : outs[d].dir /\ input_directory \in {"all", d.block}}

\* parse_feat_dir_name on the directory a first-level job wrote.
parse_feat_dir_name(d) ==
    [subject |-> d.sub, session |-> d.ses, task |-> d.task, run |-> d.run,
     path |-> d]

\* os.walk lists the directories top-down: those of one block, of one subject
\* and of one session come one after the other, in any order.
DirAbove(d, depth) ==
    CASE depth = "block" -> <<d.block>>
      [] depth = "subject" -> <<d.block, d.sub>>
      [] depth = "session" -> <<d.block, d.sub, d.ses>>
Together(p, depth) ==
    \A i, j, k \in 1..Len(p) :
        i < j /\ j < k /\ DirAbove(p[i], depth) = DirAbove(p[k], depth)
        => DirAbove(p[j], depth) = DirAbove(p[i], depth)
WalkOrders(S) ==
    {p \in Perms(S) : \A depth \in {"block", "subject", "session"} :
                         Together(p, depth)}

\* collect_feat_dirs on one walk: the directories that pass the subject and
\* task filters, as entries.
collect_feat_dirs(walk, subjects, task_filters) ==
    LET kept == SelectSeq(walk, LAMBDA d :
                    /\ subjects # <<>> => d.sub \in Range(subjects)
                    /\ task_filters # <<>> => d.task \in Range(task_filters))
    IN [i \in 1..Len(kept) |-> parse_feat_dir_name(kept[i])]

\* The key the entries are grouped by: (subject, session, task), or the same
\* with the session left out.
group_key(entry, by_session) ==
    [subject |-> entry.subject,
     session |-> IF by_session THEN entry.session ELSE "",
     task |-> entry.task]

\* pair_runs for a grouping key: the groups in order of first entry, each
\* with its run -> path table (a later entry of a run replaces the earlier
\* one); a group holding both runs gives a pair, any other group the log
\* message with the runs of (run_a, run_b) it lacks.
pair_runs_by(entries, run_pair, by_session) ==
    LET Key(entry) == group_key(entry, by_session)
        keys == Dedup([i \in 1..Len(entries) |-> Key(entries[i])])
        at(k, r) == {i \in 1..Len(entries) :
                        Key(entries[i]) = k /\ entries[i].run = r}
        last(k, r) == CHOOSE i \in at(k, r) : \A j \in at(k, r) : j <= i
        run_a == run_pair[1]
        run_b == run_pair[2]
        outcome(k) ==
            IF at(k, run_a) # {} /\ at(k, run_b) # {}
            THEN [kind |-> "pair", subject |-> k.subject,
                  session |-> k.session, task |-> k.task,
                  run_a |-> run_a, run_b |-> run_b,
                  path_a |-> entries[last(k, run_a)].path,
                  path_b |-> entries[last(k, run_b)].path,
                  missing |-> <<>>]
            ELSE [kind |-> "skipping", subject |-> k.subject,
                  session |-> k.session, task |-> k.task,
                  run_a |-> run_a, run_b |-> run_b,
                  path_a |-> EmptyPath, path_b |-> EmptyPath,
                  missing |-> SelectSeq(run_pair,
                                        LAMBDA r : at(k, r) = {})]
    IN [i \in 1..Len(keys) |-> outcome(keys[i])]

pair_runs_across_sessions(entries, run_pair) ==
    pair_runs_by(entries, run_pair, FALSE)
pair_runs(entries, run_pair) == pair_runs_by(entries, run_pair, TRUE)

\* The path of a pair's higher-level document (output_fsf).
output_fsf(pair) ==
    [subject |-> pair.subject, session |-> pair.session, task |-> pair.task,
     run_a |-> pair.run_a, run_b |-> pair.run_b]

\* A higher-level document on disk: its path and the two first-level
\* directories rendered into it.
hl_document(pair) ==
    [fsf |-> output_fsf(pair), feat_dir_a |-> pair.path_a,
     feat_dir_b |-> pair.path_b]

\* os.path.exists(output_fsf), and the test left out.
hl_exists_unchecked(fsf) == FALSE
hl_exists(fsf) == \E h \in hdocs : h.fsf = fsf

\* write_fsf: the file at the document's path is opened with "w", so what
\* was there is replaced.
write_fsf(document) ==
    {h \in hdocs : h.fsf # document.fsf} \cup {document}

\* A call of generate_higher_level_feat_files.main.  outcomes: what
\* pair_runs gave, pairs and log messages in group order; queue: the pairs
\* still to be handled; generated_fsfs: the list main builds; before: the
\* documents on disk when the call began; ret: the list main returned.
HlIdle == [pc |-> "idle", status |-> "none", calls |-> 0, entries |-> <<>>,
           outcomes |-> <<>>, queue |-> <<>>, generated_fsfs |-> <<>>,
           before |-> {}, ret |-> <<>>]

\* main up to its loop: the entries are collected and paired; with no entry
\* or no pair main returns the empty list.
hl_enter(args) ==
    /\ hl.pc = "idle"
    /\ \E walk \in WalkOrders(FeatDirs(args.input_directory)) :
         LET entries == collect_feat_dirs(walk, args.subjects, args.task_filters)
             outcomes == pair_runs(entries, args.run_pair)
             pairs == SelectSeq(outcomes, LAMBDA o : o.kind = "pair")
             call == [hl EXCEPT !.calls = @ + 1, !.entries = entries,
                                !.outcomes = <<>>, !.queue = <<>>,
                                !.generated_fsfs = <<>>, !.before = hdocs,
                                !.ret = <<>>]
         IN hl' = IF entries = <<>>
                  THEN [call EXCEPT !.status = "returned"]
                  ELSE IF pairs = <<>>
                  THEN [call EXCEPT !.status = "returned",
                                    !.outcomes = outcomes]
                  ELSE [call EXCEPT !.pc = "pairs", !.status = "running",
                                    !.outcomes = outcomes, !.queue = pairs]
    /\ UNCHANGED hdocs

\* One turn of main's loop: a pair whose document exists is skipped; else
\* the document is rendered, written and added to the list.
hl_pair ==
    /\ hl.pc = "pairs"
    /\ hl.queue # <<>>
    /\ LET pair == Head(hl.queue) IN
       IF hl_exists(output_fsf(pair))
       THEN /\ hl' = [hl EXCEPT !.queue = Tail(@)]
            /\ UNCHANGED hdocs
       ELSE /\ hl' = [hl EXCEPT !.queue = Tail(@),
                                !.generated_fsfs = Append(@, output_fsf(pair))]
            /\ hdocs' = write_fsf(hl_document(pair))

\* main returns the list of the documents it generated.
hl_return ==
    /\ hl.pc = "pairs"
    /\ hl.queue = <<>>
    /\ hl' = [hl EXCEPT !.pc = "idle", !.status = "returned",
                        !.ret = hl.generated_fsfs]
    /\ UNCHANGED hdocs

\* The aggregator run from its command line argv, MaxInvocations times at
\* most.
HlBegin ==
    /\ hl.calls < MaxInvocations
    /\ hl_enter(argv)
    /\ UNCHANGED <<envVars, notPair>>
HlPair == hl_pair /\ UNCHANGED <<envVars, notPair>>
HlEnd == hl_return /\ UNCHANGED <<envVars, notPair>>

\* ------------------------------------- invocations on one output tree
\* The target path of an item of a loop: the record of a scan file, the
\* document of a pair.
race_target(kind, item) ==
    IF kind = "records" THEN Stem(item) ELSE output_fsf(item)

\* os.path.exists on the target path.
race_exists(kind, item) ==
    IF kind = "records" THEN ConfigExists(Stem(item))
    ELSE hl_exists(output_fsf(item))

\* Invocation k comes to its loop: the files to visit are listed, or the
\* first-level directories are collected and paired.
race_enter(k) ==
    /\ cw.inv[k].pc = "start"
    /\ IF cw.kind = "records"
       THEN cw' = [cw EXCEPT !.inv[k] =
                      [pc |-> "check",
                       queue |-> ExtractOrder(argv.subjects_filter)]]
       ELSE \E walk \in WalkOrders(FeatDirs(argv.input_directory)) :
              LET entries == collect_feat_dirs(walk, argv.subjects,
                                               argv.task_filters)
                  outcomes == pair_runs(entries, argv.run_pair)
              IN cw' = [cw EXCEPT !.inv[k] =
                          [pc |-> "check",
                           queue |-> SelectSeq(outcomes,
                                               LAMBDA o : o.kind = "pair")]]
    /\ UNCHANGED <<records, hdocs>>

\* Invocation k tests the target path of the item it has reached:
\* os.path.exists(config_filepath), os.path.exists(output_fsf).
race_check(k) ==
    /\ cw.inv[k].pc = "check"
    /\ cw.inv[k].queue # <<>>
    /\ LET item == Head(cw.inv[k].queue)
           sel == IF cw.kind = "records" THEN Selection(item, argv)
                  ELSE "scan"
       IN
       CASE sel = "raise" ->
              cw' = [cw EXCEPT !.inv[k] = [pc |-> "done", queue |-> <<>>]]
         [] sel = "skip" ->
              cw' = [cw EXCEPT !.inv[k].queue = Tail(@)]
         [] sel = "scan" /\ race_exists(cw.kind, item) ->
              cw' = [cw EXCEPT !.inv[k].queue = Tail(@)]
         [] sel = "scan" /\ ~race_exists(cw.kind, item) ->
              cw' = [cw EXCEPT
                       !.inv[k].pc = "passed",
                       !.raced = IF \E j \in 1..Len(cw.inv) :
                                       /\ j # k
                                       /\ cw.inv[j].pc = "passed"
                                       /\ race_target(cw.kind,
                                                      Head(cw.inv[j].queue))
                                          = race_target(cw.kind, item)
                                 THEN @ \cup {race_target(cw.kind, item)}
                                 ELSE @]
    /\ UNCHANGED <<records, hdocs>>

\* Invocation k, past the check, reads the header and writes the record, or
\* renders and writes the document.
race_write(k) ==
    /\ cw.inv[k].pc = "passed"
    /\ LET item == Head(cw.inv[k].queue)
           wrote == [cw EXCEPT
                       !.inv[k] = [pc |-> "check", queue |-> Tail(@.queue)],
                       !.log = @ (+) SetToBag({<<k, race_target(cw.kind,
                                                                 item)>>})]
       IN
       IF cw.kind = "records"
       THEN /\ IF item.hdr.raises
               THEN /\ cw' = [cw EXCEPT !.inv[k] =
                                [pc |-> "check",
                                 queue |-> rest_after_header_error(@.queue)]]
                    /\ UNCHANGED records
               ELSE /\ cw' = wrote
                    /\ records' =
                         [records EXCEPT ![Stem(item)] =
                            config_content(
                                item.hdr.tr, item.hdr.frames,
                                IF item.hdr.frames # NA
                                THEN get_dummy_scans(item.hdr.frames, config)
                                ELSE config.default_dummy)]
            /\ UNCHANGED hdocs
       ELSE /\ cw' = wrote
            /\ hdocs' = write_fsf(hl_document(item))
            /\ UNCHANGED records

\* Invocation k has come to the end of its loop.
race_leave(k) ==
    /\ cw.inv[k].pc = "check"
    /\ cw.inv[k].queue = <<>>
    /\ cw' = [cw EXCEPT !.inv[k].pc = "done"]
    /\ UNCHANGED <<records, hdocs>>

RaceEnter ==
    \E k \in 1..Len(cw.inv) : race_enter(k) /\ UNCHANGED <<envVars, notRace>>
RaceCheck ==
    \E k \in 1..Len(cw.inv) : race_check(k) /\ UNCHANGED <<envVars, notRace>>
RaceWrite ==
    \E k \in 1..Len(cw.inv) : race_write(k) /\ UNCHANGED <<envVars, notRace>>
RaceLeave ==
    \E k \in 1..Len(cw.inv) : race_leave(k) /\ UNCHANGED <<envVars, notRace>>

\* The synthesizer run on its own (generate_design_files.main).
DesignBegin ==
    /\ design_enter(argv)
    /\ featRuns' = {}
    /\ UNCHANGED <<envVars, notDesign>>
DesignCombo == design_combo /\ UNCHANGED <<envVars, notDesign>>
DesignWrite == design_write /\ UNCHANGED <<envVars, notDesign>>
DesignFeat == design_feat /\ UNCHANGED <<envVars, notDesign>>
DesignEnd == design_return /\ UNCHANGED <<envVars, notDesign>>

InitDesignIdle ==
    /\ docs = [d \in AllDocs |-> NoDoc]
    /\ outs = [d \in AllDocs |-> NoDir]
    /\ featRuns = {}
    /\ ds = DsIdle
    /\ dsLast = NoDsLast
    /\ rf = RfIdle
    /\ cmdFile = <<>>
    /\ pipe = PipeIdle
    /\ hl = HlIdle
    /\ hdocs = {}

\* Records that exist when the synthesizer is first called: written by an
\* earlier extractor run (here with the default discard count) or by hand.
WrittenRecord(f) ==
    config_content(f.hdr.tr, f.hdr.frames,
                   IF f.hdr.frames # NA
                   THEN get_dummy_scans(f.hdr.frames, default_cfg)
                   ELSE default_cfg.default_dummy)

InitDesign ==
    /\ tree \in Trees
    /\ config = default_cfg
    /\ blockFiles \in {{}, {"A"}, {"standard", "A", "B"}}
    /\ argv \in SynthArgs
    /\ \E have \in SUBSET {i \in 1..Len(tree) : tree[i].bold /\ ~tree[i].hdr.raises} :
         records = [s \in AllStems |->
                      IF \E i \in have : Stem(tree[i]) = s
                      THEN WrittenRecord(tree[CHOOSE i \in have : Stem(tree[i]) = s])
                      ELSE Absent]
    /\ ex = ExIdle
    /\ exLast = NoLast
    /\ exPrev = <<>>
    /\ mo = MoIdle
    /\ cw = CwIdle
    /\ pf = PfIdle
    /\ InitDesignIdle

NextDesign ==
    \/ DesignBegin
    \/ DesignCombo
    \/ DesignWrite
    \/ DesignFeat
    \/ DesignEnd

SpecDesign == InitDesign /\ [][NextDesign]_vars

\* Documents and output directories the dispatcher is first called on.
D1 == [sub |-> "sub-001", ses |-> "ses-001", task |-> T_hand, run |-> 1,
       block |-> "standard"]
D2 == [sub |-> "sub-001", ses |-> "ses-001", task |-> T_hand, run |-> 2,
       block |-> "standard"]
D3 == [sub |-> "sub-001", ses |-> "ses-001", task |-> T_hand, run |-> 1,
       block |-> "A"]
PathPool == <<D1, EmptyPath, D2, D3, D1>>
PathLists == {SubSeq(PathPool, 1, n) : n \in 1..(MaxJobs + 1)} \cup {<<EmptyPath>>}
FeatArgs == [prog : {"run_feat"}, fsf_paths : PathLists, max_workers : {1, 2},
             write_commands : BOOLEAN, dry_run : BOOLEAN, force : BOOLEAN]

OutViaReport == [dir |-> TRUE, has |-> {"design.fsf", "stats", "report.html"}]
OutViaVolume == [dir |-> TRUE,
                 has |-> {"design.fsf", "stats", "filtered_func_data.nii.gz"}]
OutNoDesign == [dir |-> TRUE, has |-> {"stats", "report.html"}]
OutEmpty == [dir |-> TRUE, has |-> {}]

InitFeat ==
    /\ tree = Tree1
    /\ config = default_cfg
    /\ blockFiles = {}
    /\ argv \in FeatArgs
    /\ records = InitRecords({})
    /\ ex = ExIdle
    /\ exLast = NoLast
    /\ exPrev = <<>>
    /\ mo = MoIdle
    /\ cw = CwIdle
    /\ pf = PfIdle
    /\ \E d3 \in {NoDoc, [rendered_fsf(Edited, feat_directory(D3), "")
                             EXCEPT !.outdir = FALSE]} :
         docs = [d \in AllDocs |->
                   IF d \in {D1, D2} THEN rendered_fsf(Edited, feat_directory(d), "")
                   ELSE IF d = D3 THEN d3 ELSE NoDoc]
    /\ \E o1 \in {NoDir, OutViaReport, OutViaVolume, OutFailed, OutNoDesign,
                  OutEmpty},
          o2 \in {NoDir, OutFinished, OutFailed} :
         outs = [d \in AllDocs |->
                   IF d = D1 THEN o1 ELSE IF d = D2 THEN o2 ELSE
                   IF d = D3 THEN OutFinished ELSE NoDir]
    /\ featRuns = {}
    /\ ds = DsIdle
    /\ dsLast = NoDsLast
    /\ rf = RfIdle
    /\ cmdFile \in {<<>>, <<CommandLine(D2)>>}
    /\ pipe = PipeIdle
    /\ hl = HlIdle
    /\ hdocs = {}

NextFeat ==
    \/ FeatBegin
    \/ FeatJobStart
    \/ FeatJobExit
    \/ FeatCollect
    \/ FeatEnd

SpecFeat == InitFeat /\ [][NextFeat]_vars

\* The command lines of the pipeline; a subjects token is the list of the
\* identifiers between its commas.
PipeArgs == [prog : {"run_pipeline"},
             subjects : {<<>>, << <<"sub-001">> >>, << <<>>, <<"sub-002", "sub-001">> >>},
             task : {<<T_hand>>, <<T_rest, T_hand>>},
             run : {<<1>>, <<1, 2>>, <<NoRun>>, <<NoRun, 1>>},
             write_commands : BOOLEAN, dry_run : BOOLEAN, force : BOOLEAN]

\* Either program is run, on a tree where some documents have been written
\* and some of their jobs have finished.
InitPipe ==
    /\ tree = Tree1
    /\ config = default_cfg
    /\ blockFiles = {}
    /\ argv \in PipeArgs \cup FeatArgs
    /\ records = InitRecords({})
    /\ ex = ExIdle
    /\ exLast = NoLast
    /\ exPrev = <<>>
    /\ mo = MoIdle
    /\ cw = CwIdle
    /\ pf = PfIdle
    /\ docs = [d \in AllDocs |->
                 IF d \in {D1, D2} THEN rendered_fsf(Edited, feat_directory(d), "")
                 ELSE NoDoc]
    /\ \E o1 \in {NoDir, OutViaReport, OutFailed}, o2 \in {NoDir, OutFinished} :
         outs = [d \in AllDocs |->
                   IF d = D1 THEN o1 ELSE IF d = D2 THEN o2 ELSE NoDir]
    /\ featRuns = {}
    /\ ds = DsIdle
    /\ dsLast = NoDsLast
    /\ rf = RfIdle
    /\ cmdFile \in {<<>>, <<CommandLine(D2)>>}
    /\ pipe = PipeIdle
    /\ hl = HlIdle
    /\ hdocs = {}

NextPipe ==
    \/ PipeBegin
    \/ PipeBeginSubject
    \/ PipeMotionOutliers
    \/ PipeInterrupt
    \/ FeatBegin
    \/ FeatJobStart
    \/ FeatJobExit
    \/ FeatCollect
    \/ FeatEnd

SpecPipe == InitPipe /\ [][NextPipe]_vars

\* The command lines of the aggregator.
PairArgs ==
    {[input_directory |-> dir, run_pair |-> rp, subjects |-> f[1],
      task_filters |-> f[2]] :
        dir \in {"standard", "all"},
        rp \in {<<1, 2>>, <<2, 1>>, <<2, 2>>},
        f \in {<< <<>>, <<>> >>, << <<"sub-001">>, <<T_hand>> >>}}

\* First-level output directories the aggregator may find.
D4 == [sub |-> "sub-001", ses |-> "ses-002", task |-> T_hand, run |-> 2,
       block |-> "standard"]
D5 == [sub |-> "sub-002", ses |-> "ses-001", task |-> T_hand, run |-> 2,
       block |-> "standard"]
D6 == [sub |-> "sub-001", ses |-> "ses-001", task |-> T_rest, run |-> 2,
       block |-> "standard"]
DirPool == {D1, D2, D3, D4, D5, D6}

\* A higher-level document left by an earlier run.
OldHlDocument ==
    [fsf |-> [subject |-> "sub-001", session |-> "ses-001", task |-> T_hand,
              run_a |-> 1, run_b |-> 2],
     feat_dir_a |-> D1, feat_dir_b |-> D2]

InitPair ==
    /\ tree = Tree1
    /\ config = default_cfg
    /\ blockFiles = {}
    /\ argv \in PairArgs
    /\ records = InitRecords({})
    /\ ex = ExIdle
    /\ exLast = NoLast
    /\ exPrev = <<>>
    /\ mo = MoIdle
    /\ cw = CwIdle
    /\ pf = PfIdle
    /\ docs = [d \in AllDocs |-> NoDoc]
    /\ \E have \in SUBSET DirPool, o2 \in {OutFinished, OutFailed} :
         /\ Cardinality(have) <= MaxDirs
         /\ o2 = OutFailed => have = {D1, D2}
         /\ outs = [d \in AllDocs |-> IF d \notin have THEN NoDir
                                      ELSE IF d = D2 THEN o2 ELSE OutFinished]
    /\ featRuns = {}
    /\ ds = DsIdle
    /\ dsLast = NoDsLast
    /\ rf = RfIdle
    /\ cmdFile = <<>>
    /\ pipe = PipeIdle
    /\ hl = HlIdle
    /\ hdocs \in {{}, {OldHlDocument}}

NextPair ==
    \/ HlBegin
    \/ HlPair
    \/ HlEnd

SpecPair == InitPair /\ [][NextPair]_vars

\* ------------------------------------------------------ initial states
InitEnv ==
    /\ tree \in Trees
    /\ config \in Configs
    /\ blockFiles = {}
    /\ \E edited \in SUBSET BoldStems(tree) : records = InitRecords(edited)
    /\ ex = ExIdle
    /\ exLast = NoLast
    /\ exPrev = <<>>
    /\ mo = MoIdle
    /\ cw = CwIdle
    /\ pf = PfIdle

InitExtract ==
    /\ InitEnv
    /\ InitDesignIdle
    /\ argv \in ExArgs

NextExtract ==
    \/ ExtractBegin
    \/ ExtractFile
    \/ ExtractEnd

SpecExtract == InitExtract /\ [][NextExtract]_vars

\* ------------------------------------- the functions of utils/bids.py
\* Entity sets a scan name is built from, and the filters match_filters is
\* called with.
BidsEntities ==
    [subject : {<<"0", "0", "1">>, <<"r", "u", "n", "2">>, <<"A", "b", "9">>},
     session : {<<"0", "1">>, <<"p", "r", "e">>},
     task : {T_hand, T_rest, <<"s", "u", "b", "1">>},
     run : (0..MaxRun) \cup {NoRun, 12}]
\* Paths that do not follow the convention: a run label of two digits, key
\* texts inside longer tokens, directories, values that are missing or run
\* on into other characters, a key that occurs twice, and no key at all.
BidsOddPaths ==
    {K_sub \o <<"0", "1">> \o <<"_">> \o S_run \o <<"1", "0">> \o S_bold,
     <<"x">> \o K_sub \o <<"0", "1">> \o <<"_">> \o S_task \o T_hand
        \o <<"2", "_">> \o S_run \o <<"1">>,
     K_sub \o <<"0", "1", "/">> \o K_ses \o <<"p", "r", "e", "/">>
        \o <<"f", "u", "n", "c", "/">> \o S_task \o T_rest \o S_bold,
     K_sub \o <<"_">> \o K_ses \o <<"0", "1", "_">> \o S_task \o T_hand
        \o <<"-", "x", "_">> \o S_run \o <<"1", "a">>,
     S_task \o T_hand \o <<"_">> \o S_task \o T_rest \o <<"_">>
        \o <<"x">> \o S_run \o <<"1", "_">> \o S_run \o <<"0", "2">>,
     S_task \o T_hand \o <<"_">> \o S_run \o <<"0", "1">> \o S_bold,
     K_ses \o <<"0", "1">> \o K_sub \o <<"0", "0", "1">>,
     <<"b", "o", "l", "d">>}
BidsFilters ==
    [subject : {<<>>, K_sub \o <<"0", "0", "1">>, <<"A", "b", "9">>},
     session : {<<>>, K_ses \o <<"0", "1">>},
     task_filters : {<<>>, <<T_hand>>, <<T_rest, T_hand>>},
     run_filters : {<<>>, <<NoRun>>, <<2>>, <<1, NoRun>>, <<2, 1>>}]

\* ents = parse_bids_entities(basename)
bids_parse ==
    /\ pf.fn = "bids" /\ pf.pc = "path"
    /\ pf' = [pf EXCEPT !.pc = "parsed", !.ents = parse_bids_entities(pf.path)]

\* match_filters(ents, ...)
bids_match ==
    /\ pf.fn = "bids" /\ pf.pc = "parsed"
    /\ pf' = [pf EXCEPT !.pc = "matched",
                        !.accepted = match_filters(pf.ents, pf.filters.subject,
                                                   pf.filters.task_filters,
                                                   pf.filters.run_filters,
                                                   pf.filters.session)]

BidsParse == bids_parse /\ UNCHANGED <<envVars, notPure>>
BidsMatch == bids_match /\ UNCHANGED <<envVars, notPure>>

InitBids ==
    /\ tree = Tree1
    /\ config = default_cfg
    /\ blockFiles = {}
    /\ argv = <<>>
    /\ records = InitRecords({})
    /\ ex = ExIdle
    /\ exLast = NoLast
    /\ exPrev = <<>>
    /\ mo = MoIdle
    /\ cw = CwIdle
    /\ InitDesignIdle
    /\ \/ \E e \in BidsEntities, f \in BidsFilters :
            pf = [fn |-> "bids", pc |-> "path", built |-> TRUE, entities |-> e,
                  path |-> ScanName(e), filters |-> f,
                  ents |-> parse_bids_entities(<<>>), accepted |-> FALSE]
       \/ \E p \in BidsOddPaths, f \in BidsFilters :
            pf = [fn |-> "bids", pc |-> "path", built |-> FALSE,
                  entities |-> parse_bids_entities(<<>>),
                  path |-> p, filters |-> f,
                  ents |-> parse_bids_entities(<<>>), accepted |-> FALSE]

NextBids ==
    \/ BidsParse
    \/ BidsMatch

SpecBids == InitBids /\ [][NextBids]_vars

\* ---------------------------------- the function of utils/subjects.py
\* The texts a token or a subjects file is drawn from.
TokenTexts ==
    {<<>>, <<" ">>, <<",">>, <<",", " ", ",">>, <<"\n", ",">>,
     <<"sub-001">>, <<" ", "sub-002", " ">>, <<"sub-001", ",", "sub-002">>,
     <<"sub-001", ",", " ", "sub-001">>, P_subjects_file}
FileTexts ==
    {<<>>, <<"\n", ",", " ">>, <<" ", "sub-001", ",", ",", "sub-002">>,
     <<"sub-001", "\n", "sub-002", ",", "sub-001", "\n">>}
TokenLists == UNION {[1..n -> TokenTexts] : n \in 0..MaxTokens}
SubjectsArgs ==
    {[kind |-> "none"]}
    \cup {[kind |-> "str", text |-> t] : t \in TokenTexts}
    \cup {[kind |-> "list", items |-> l] : l \in TokenLists}
SubjectsFiles ==
    {[exists |-> FALSE, raw |-> <<>>]}
    \cup {[exists |-> TRUE, raw |-> r] : r \in FileTexts}

\* The call of parse_subjects_arg.
subjects_parse ==
    /\ pf.fn = "subjects" /\ pf.pc = "call"
    /\ pf' = [pf EXCEPT !.pc = "done",
                        !.ret = parse_subjects_arg(pf.subjects_arg, pf.files)]

SubjectsParse == subjects_parse /\ UNCHANGED <<envVars, notPure>>

InitSubjects ==
    /\ tree = Tree1
    /\ config = default_cfg
    /\ blockFiles = {}
    /\ argv = <<>>
    /\ records = InitRecords({})
    /\ ex = ExIdle
    /\ exLast = NoLast
    /\ exPrev = <<>>
    /\ mo = MoIdle
    /\ cw = CwIdle
    /\ InitDesignIdle
    /\ \E a \in SubjectsArgs, f \in SubjectsFiles :
         pf = [fn |-> "subjects", pc |-> "call", subjects_arg |-> a,
               files |-> f, ret |-> [isList |-> FALSE, items |-> <<>>]]

NextSubjects == SubjectsParse

SpecSubjects == InitSubjects /\ [][NextSubjects]_vars

\* --------------------------- motion outliers (utils/run_motion_outliers.py)
\* The command lines of run_motion_outliers.main.
MotionArgs == [prog : {"run_motion_outliers"},
               subjects : {<<>>, <<"sub-001">>},
               max_workers : {1, 2},
               task_filters : {<<>>, <<T_hand>>},
               run_filters : {<<>>, <<1>>, <<NoRun>>}]

\* The run filter of main's walk: a file without "run-" when null is
\* wanted, or a file holding run-NN for a wanted number.
motion_run_matches(name, run_filters) ==
    \/ /\ \E i \in 1..Len(run_filters) : run_filters[i] = NoRun
       /\ ~IsInfix(S_run, name)
    \/ \E i \in 1..Len(run_filters) :
         /\ run_filters[i] # NoRun
         /\ IsInfix(S_run \o Pad2(run_filters[i]), name)

\* The files main hands to the pool.
motion_selected(f, args) ==
    /\ args.subjects # <<>> => f.sub \in Range(args.subjects)
    /\ f.bold
    /\ IsInfix(<<"b", "o", "l", "d">>, FileName(f))
    /\ args.task_filters # <<>> => TaskFilterHit(FileName(f), args.task_filters)
    /\ args.run_filters # <<>> => motion_run_matches(FileName(f), args.run_filters)

\* main collects the tasks and executor.map submits every one of them.
motion_enter(args) ==
    /\ mo.pc = "idle" /\ mo.status = "none"
    /\ mo' = [pc |-> "pool", status |-> "running",
              tasks |-> [i \in 1..Len(SelectSeq(tree, LAMBDA f : motion_selected(f, args))) |->
                           [file |-> Stem(SelectSeq(tree, LAMBDA f : motion_selected(f, args))[i]),
                            st |-> "queued", raised |-> FALSE]],
              max_workers |-> args.max_workers]

\* A free worker of the pool takes the next queued task.
motion_worker_start(i) ==
    /\ mo.pc = "pool"
    /\ mo.tasks[i].st = "queued"
    /\ \A k \in 1..(i - 1) : mo.tasks[k].st # "queued"
    /\ Cardinality({k \in 1..Len(mo.tasks) : mo.tasks[k].st = "running"})
       < mo.max_workers
    /\ mo' = [mo EXCEPT !.tasks[i].st = "running"]

\* process_file ends for a task: it returns, or it raises and the exception
\* is kept in the task's future.
motion_worker_end(i, raises) ==
    /\ mo.pc = "pool"
    /\ mo.tasks[i].st = "running"
    /\ mo' = [mo EXCEPT !.tasks[i].st = "done", !.tasks[i].raised = raises]

\* The with block is left once every worker is done.  The iterator
\* executor.map returned is never read, so no future's exception is raised
\* again: main prints its last line and returns.
motion_return ==
    /\ mo.pc = "pool"
    /\ \A k \in 1..Len(mo.tasks) : mo.tasks[k].st = "done"
    /\ mo' = [mo EXCEPT !.pc = "idle", !.status = "returned"]

MotionBegin ==
    /\ argv.prog = "run_motion_outliers"
    /\ motion_enter(argv)
    /\ UNCHANGED <<envVars, notMotion>>
MotionWorkerStart ==
    /\ \E i \in 1..Len(mo.tasks) : motion_worker_start(i)
    /\ UNCHANGED <<envVars, notMotion>>
MotionWorkerEnd ==
    /\ \E i \in 1..Len(mo.tasks), raises \in BOOLEAN : motion_worker_end(i, raises)
    /\ UNCHANGED <<envVars, notMotion>>
MotionEnd == motion_return /\ UNCHANGED <<envVars, notMotion>>

InitMotion ==
    /\ tree \in Trees
    /\ config = default_cfg
    /\ blockFiles = {}
    /\ argv \in MotionArgs
    /\ records = InitRecords({})
    /\ ex = ExIdle
    /\ exLast = NoLast
    /\ exPrev = <<>>
    /\ mo = MoIdle
    /\ cw = CwIdle
    /\ pf = PfIdle
    /\ InitDesignIdle

NextMotion ==
    \/ MotionBegin
    \/ MotionWorkerStart
    \/ MotionWorkerEnd
    \/ MotionEnd

SpecMotion == InitMotion /\ [][NextMotion]_vars

\* ------------------- invocations running at once on one output tree
\* Up to MaxInvocations invocations, all at the Parameter Extractor (every
\* subject visited) or all at the Run-Pair Aggregator, on a tree that may
\* hold one record or one higher-level document already.
InitRace ==
    /\ config = default_cfg
    /\ blockFiles = {}
    /\ ex = ExIdle
    /\ exLast = NoLast
    /\ exPrev = <<>>
    /\ mo = MoIdle
    /\ pf = PfIdle
    /\ docs = [d \in AllDocs |-> NoDoc]
    /\ featRuns = {}
    /\ ds = DsIdle
    /\ dsLast = NoDsLast
    /\ rf = RfIdle
    /\ cmdFile = <<>>
    /\ pipe = PipeIdle
    /\ hl = HlIdle
    /\ \E n \in 1..MaxInvocations :
         \/ /\ tree = Tree1
            /\ argv \in {a \in ExArgs : /\ a.subjects_filter = <<>>
                                        /\ a.task_filters # <<T_rest, T_hand>>
                                        /\ a.run_filters # <<2, 1>>}
            /\ \E edited \in SUBSET BoldStems(tree) :
                 /\ Cardinality(edited) <= 1
                 /\ records = InitRecords(edited)
            /\ outs = [d \in AllDocs |-> NoDir]
            /\ hdocs = {}
            /\ cw = [kind |-> "records", inv |-> [i \in 1..n |-> RaceInvocation],
                     log |-> EmptyBag, raced |-> {}]
         \/ /\ tree = Tree1
            /\ argv \in PairArgs
            /\ records = InitRecords({})
            /\ \E have \in {{D1, D2}, {D1, D2, D6}, {D2, D3, D4}} :
                 outs = [d \in AllDocs |-> IF d \in have THEN OutFinished
                                           ELSE NoDir]
            /\ hdocs \in {{}, {OldHlDocument}}
            /\ cw = [kind |-> "higher", inv |-> [i \in 1..n |-> RaceInvocation],
                     log |-> EmptyBag, raced |-> {}]

NextRace ==
    \/ RaceEnter
    \/ RaceCheck
    \/ RaceWrite
    \/ RaceLeave

SpecRace == InitRace /\ [][NextRace]_vars

\* C1: the Parameter Extractor never overwrites.  A scan whose record exists
\* when the extractor reaches it is left without a header read and without a
\* write; a record that exists keeps its content over every step; and a call
\* made with the arguments of the call that ended before it writes no record.
C1_NeverOverwrites ==
    /\ [](exLast.acted /\ exLast.existed => ~exLast.loaded /\ ~exLast.wrote)
    /\ [](ex.pc = "run" /\ exPrev = <<ex.args>> => ex.written = {})
    /\ [][\A s \in AllStems :
            records[s].kind # "absent" => records'[s] = records[s]]_vars

\* A second pass is under way and has just skipped a scan whose record the
\* first pass wrote.
C1_Witness ==
    /\ ex.pc = "run"
    /\ exPrev = <<ex.args>>
    /\ exLast.acted /\ exLast.existed
    /\ records[exLast.stem].kind = "auto"

\* C2: the Design Synthesizer writes each first-level design document at most
\* once: a generation request whose target document already exists does not
\* write it.
C2_WrittenAtMostOnce ==
    dsLast.acted /\ dsLast.existed => ~dsLast.wrote

\* C3: main returns a flat list holding exactly the documents it newly wrote
\* during the call, in the order written.
C3_ReturnsNewDocuments ==
    ds.pc = "idle" /\ ds.status = "returned"
        => ds.ret.isList /\ ds.ret.items = ds.new

\* C5: a (subject, session, requested run) whose configuration record is
\* absent gets no document and is never parsed, and the combinations after it
\* are still processed by the time the call ends.
C5_MissingRecordSkipped ==
    \A i \in 1..Len(ds.combos) :
        LET c == ds.combos[i] IN
        ~ConfigExists(ComboStem(c, ds.args.task)) =>
            /\ c \notin ds.parsed
            /\ \A k \in 1..Len(ds.new) :
                 ds.new[k].sub # c.sub \/ ds.new[k].ses # c.ses
                 \/ ds.new[k].run # c.run
            /\ (ds.pc = "idle" /\ ds.status # "none" =>
                  \A j \in (i + 1)..Len(ds.combos) : ds.combos[j] \in ds.visited)

\* The documents a pipeline command line asks for.
Requested(d) ==
    /\ d.sub \in Range(subject_iter(argv.subjects))
    /\ d.task \in Range(argv.task)
    /\ d.run \in Range(argv.run)

\* C4: resumability.  When a pipeline invocation that is not the first one
\* on this tree has come to its end, no requested first-level design
\* document that has been written and whose output directory does not
\* satisfy the completion markers is left without having been dispatched to
\* the external binary during that invocation.
C4_Resumable ==
    (/\ argv.prog = "run_pipeline"
     /\ ~parse_runs_raises(argv.run)
     /\ pipe.calls >= 2
     /\ pipe.pc = "idle"
     /\ pipe.status \in {"returned", "raised"})
    => \A d \in AllDocs :
         Requested(d) /\ docs[d].kind = "fsf" /\ ~feat_is_complete(outs[d])
         => d \in featRuns

\* The output directory a job found has every completion marker the
\* dispatcher looks for.
SawComplete(j) ==
    /\ j.decision # "none"
    /\ j.declared
    /\ j.seen.dir
    /\ {"design.fsf", "stats"} \subseteq j.seen.has
    /\ {"filtered_func_data.nii.gz", "report.html"} \cap j.seen.has # {}

\* Every job of a dispatcher call in execute mode that has come to its end
\* was decided.
AllDecided ==
    rf.pc = "idle" /\ rf.status # "none" /\ ~rf.emit
    => \A i \in 1..Len(rf.jobs) : rf.jobs[i].decision # "none"

\* C6 as stated: in execute mode, a document whose declared output directory
\* exists and holds design.fsf, stats and one of filtered_func_data.nii.gz or
\* report.html is not handed to the external binary when force is false, and
\* is handed to it when force is true.
C6_AsStated ==
    /\ AllDecided
    /\ \A i \in 1..Len(rf.jobs) :
         SawComplete(rf.jobs[i]) =>
            /\ ~rf.force => ~rf.jobs[i].started /\ rf.jobs[i].decision = "skip"
            /\ rf.force => rf.jobs[i].started

\* C6: skip-if-complete.  In execute mode, a document whose declared output
\* directory exists and holds design.fsf, stats and one of
\* filtered_func_data.nii.gz or report.html is not handed to the external
\* binary when force is false; when force is true it is handed to it unless
\* the call is a dry run, and in a dry run no process is started for it.
C6_SkipIfComplete ==
    /\ AllDecided
    /\ \A i \in 1..Len(rf.jobs) :
         SawComplete(rf.jobs[i]) =>
            /\ ~rf.force => ~rf.jobs[i].started /\ rf.jobs[i].decision = "skip"
            /\ rf.force /\ ~rf.dry_run => rf.jobs[i].started
            /\ rf.force /\ rf.dry_run =>
                 ~rf.jobs[i].started /\ rf.jobs[i].decision = "run"

\* A forced call has ended after starting the binary on a document whose
\* output directory was complete by way of the filtered volume.
C6_Witness ==
    /\ rf.pc = "idle" /\ rf.status = "returned"
    /\ rf.force /\ ~rf.dry_run
    /\ \E i \in 1..Len(rf.jobs) :
         /\ SawComplete(rf.jobs[i])
         /\ "report.html" \notin rf.jobs[i].seen.has
         /\ rf.jobs[i].started

\* C7: aggregated failure.  When a dispatcher call has ended and the external
\* process exited non-zero for the documents F, the call has raised and the
\* failure it raised names every document of F.
C7_AggregatedFailure ==
    rf.pc = "idle" /\ rf.status \in {"returned", "raised"}
    => LET F == {rf.jobs[i].doc : i \in {k \in 1..Len(rf.jobs) : rf.jobs[k].rc # 0}}
       IN F # {} => rf.status = "raised" /\ F \subseteq Range(rf.error)

\* The occurrences of x in the sequence q.
Occurrences(x, q) == Cardinality({i \in 1..Len(q) : q[i] = x})

Groups == [subject : Subjects, session : Sessions, task : Tasks]
RunsOf(g) ==
    {hl.entries[i].run : i \in {j \in 1..Len(hl.entries) :
        /\ hl.entries[j].subject = g.subject
        /\ hl.entries[j].session = g.session
        /\ hl.entries[j].task = g.task}}
OutcomesFor(g, kind) ==
    {i \in 1..Len(hl.outcomes) :
        /\ hl.outcomes[i].kind = kind
        /\ hl.outcomes[i].subject = g.subject
        /\ hl.outcomes[i].session = g.session
        /\ hl.outcomes[i].task = g.task}
GeneratedFor(g) ==
    {i \in 1..Len(hl.generated_fsfs) :
        /\ hl.generated_fsfs[i].subject = g.subject
        /\ hl.generated_fsfs[i].session = g.session
        /\ hl.generated_fsfs[i].task = g.task}
IsRunOf(d, g, r) ==
    d.sub = g.subject /\ d.ses = g.session /\ d.task = g.task /\ d.run = r

\* C10: run pairing.  For every (subject, session, task) group and requested
\* pair (a, b): one pair, made of the group's own directories for runs a and
\* b, if both runs occur among the group's runs, and none otherwise; a
\* group that has directories but lacks a or b gets one log message that
\* names the runs it lacks and no others; a document is generated for a
\* group only if both runs occur, at most once, and when the call has
\* returned the document of every group with both runs exists.
C10_RunPairing ==
    hl.status # "none" =>
    \A g \in Groups :
        LET a == argv.run_pair[1]
            b == argv.run_pair[2]
            both == a \in RunsOf(g) /\ b \in RunsOf(g)
        IN /\ Cardinality(OutcomesFor(g, "pair")) = IF both THEN 1 ELSE 0
           /\ \A i \in OutcomesFor(g, "pair") :
                /\ IsRunOf(hl.outcomes[i].path_a, g, a)
                /\ IsRunOf(hl.outcomes[i].path_b, g, b)
           /\ Cardinality(OutcomesFor(g, "skipping"))
                = IF RunsOf(g) # {} /\ ~both THEN 1 ELSE 0
           /\ \A i \in OutcomesFor(g, "skipping") :
                Range(hl.outcomes[i].missing) = {a, b} \ RunsOf(g)
           /\ Cardinality(GeneratedFor(g)) <= 1
           /\ GeneratedFor(g) # {} => both
           /\ hl.pc = "idle" /\ both =>
                hl_exists([subject |-> g.subject, session |-> g.session,
                           task |-> g.task, run_a |-> a, run_b |-> b])

\* A call has returned after generating the document of one group, and has
\* logged one missing run for another group although a directory of that run
\* exists in a different session, subject or task.
C10_Witness ==
    /\ hl.pc = "idle" /\ hl.status = "returned"
    /\ Len(hl.generated_fsfs) = 1
    /\ \E i, k \in 1..Len(hl.outcomes) :
         /\ hl.outcomes[i].kind = "pair"
         /\ hl.outcomes[k].kind = "skipping"
         /\ Len(hl.outcomes[k].missing) = 1
         /\ \E j \in 1..Len(hl.entries) :
              hl.entries[j].run = hl.outcomes[k].missing[1]

\* C11: higher-level idempotence.  No step of the Run-Pair Aggregator
\* changes or removes a higher-level design document that exists; the list
\* main returns holds, once each, exactly the documents that were not on
\* disk when the call began and are now; and a call made after an earlier
\* call returned, on the same first-level tree, writes nothing and returns
\* the empty list.
C11_HigherLevelIdempotent ==
    /\ [][\A h \in hdocs : h \in hdocs']_vars
    /\ [](hl.pc = "idle" /\ hl.status = "returned" =>
            /\ Range(hl.ret) = {h.fsf : h \in hdocs \ hl.before}
            /\ Cardinality(Range(hl.ret)) = Len(hl.ret))
    /\ [](hl.calls >= 2 => hdocs = hl.before /\ hl.generated_fsfs = <<>>
                              /\ hl.ret = <<>>)

\* A second call has returned on a tree where the first call wrote a
\* document and an older document was already there.
C11_Witness ==
    /\ hl.calls = 2 /\ hl.pc = "idle" /\ hl.status = "returned"
    /\ OldHlDocument \in hdocs
    /\ Cardinality(hdocs) >= 2
    /\ \E i \in 1..Len(hl.outcomes) : hl.outcomes[i].kind = "pair"

\* The run filter accepts the parsed run: no run filter is given, or the
\* run is null and the list holds null, or the run is a number among the
\* list's non-null entries.
RunDimensionAccepts ==
    \/ pf.filters.run_filters = <<>>
    \/ /\ pf.ents.run = NoRun
       /\ NoRun \in Range(pf.filters.run_filters)
    \/ /\ pf.ents.run # NoRun
       /\ pf.ents.run \in Range(pf.filters.run_filters)

OtherDimensionsAbsent ==
    /\ pf.filters.subject = <<>>
    /\ pf.filters.session = <<>>
    /\ pf.filters.task_filters = <<>>

\* C12 as stated: an entity set with run = null is accepted on the run
\* dimension iff the run-filter list contains null.
C12_AsStated ==
    pf.fn = "bids" /\ pf.pc = "matched" /\ OtherDimensionsAbsent
    /\ pf.ents.run = NoRun
    => (pf.accepted <=> NoRun \in Range(pf.filters.run_filters))

\* C12: match_filters run semantics.  An entity set with run = null is
\* accepted on the run dimension iff the run filter is absent or its list
\* contains null; an entity set with a numeric run is accepted on the run
\* dimension iff the run is among the filter's non-null entries or the run
\* filter is absent; and whatever the other filters, nothing is accepted
\* that the run dimension rejects.
C12_RunSemantics ==
    pf.fn = "bids" /\ pf.pc = "matched" =>
        /\ OtherDimensionsAbsent => (pf.accepted <=> RunDimensionAccepts)
        /\ pf.accepted => RunDimensionAccepts

\* A scan with no run label was rejected by a run filter without null.
C12_Witness ==
    /\ pf.fn = "bids" /\ pf.pc = "matched" /\ OtherDimensionsAbsent
    /\ pf.ents.run = NoRun
    /\ pf.filters.run_filters = <<2, 1>>
    /\ ~pf.accepted

\* C13: Entity Parser round trip.  Parsing the scan name built from an
\* entity set by the convention sub-<s>_ses-<e>_task-<t>[_run-NN]_bold.nii.gz
\* gives that entity set back, run = null included when no run label was
\* written.
C13_RoundTrip ==
    pf.fn = "bids" /\ pf.built /\ pf.pc # "path" => pf.ents = pf.entities

\* A name without a run label, for a subject spelled "run2", was parsed.
C13_Witness ==
    /\ pf.fn = "bids" /\ pf.pc = "parsed"
    /\ pf.entities.run = NoRun
    /\ pf.ents.run = NoRun
    /\ pf.ents.subject = <<"r", "u", "n", "2">>

\* The blocks generate_fsf loops over for the running call.
RequestedBlocks ==
    IF ds.args.custom_block = <<>> THEN <<"standard">> ELSE ds.args.custom_block

\* The scans generate_fsf was called on and has finished with.
FinishedScans ==
    {c \in ds.parsed : ~(ds.pc \in {"write", "feat"} /\ ds.cur = c)}

\* The writes of this call for a scan, as positions of ds.wrote.
WritesFor(c) ==
    {k \in 1..Len(ds.wrote) :
        /\ ds.wrote[k].sub = c.sub /\ ds.wrote[k].ses = c.ses
        /\ ds.wrote[k].run = c.run}

\* C14 as stated: the documents written for one scan carry pairwise
\* distinct custom-design-file fields.
C14_AsStated ==
    \A c \in FinishedScans : \A k1, k2 \in WritesFor(c) :
        k1 # k2 => docs[ds.wrote[k1]].custom_design_file
                   # docs[ds.wrote[k2]].custom_design_file

\* C14: blocks.  For one scan with an existing configuration record and a
\* list of k distinct custom blocks, the Design Synthesizer writes exactly k
\* design documents, one per block, with pairwise distinct file names
\* (differing by the _<block> suffix) and pairwise distinct embedded output
\* directories; each document's custom-design-file field names <block>.txt
\* when that file lies beside the template and is empty when it does not, so
\* the fields are pairwise distinct among the blocks whose file exists; with
\* an empty block list exactly one document, for block "standard", is
\* written.
C14_Blocks ==
    \A c \in FinishedScans :
        /\ Cardinality(WritesFor(c)) = Len(RequestedBlocks)
        /\ {ds.wrote[k].block : k \in WritesFor(c)} = Range(RequestedBlocks)
        /\ ds.args.custom_block = <<>> =>
             \A k \in WritesFor(c) : ds.wrote[k].block = "standard"
        /\ \A k \in WritesFor(c) :
             /\ docs[ds.wrote[k]].kind = "fsf"
             /\ docs[ds.wrote[k]].custom_design_file =
                  (IF ds.wrote[k].block \in blockFiles
                   THEN <<ds.wrote[k].block, ".txt">> ELSE "")
        /\ \A k1, k2 \in WritesFor(c) :
             k1 # k2 =>
               /\ output_fsf_filename(ds.wrote[k1]) # output_fsf_filename(ds.wrote[k2])
               /\ docs[ds.wrote[k1]].output_directory
                  # docs[ds.wrote[k2]].output_directory
               /\ ds.wrote[k1].block \in blockFiles /\ ds.wrote[k2].block \in blockFiles
                  => docs[ds.wrote[k1]].custom_design_file
                     # docs[ds.wrote[k2]].custom_design_file

\* A call with two custom blocks, both design files beside the template,
\* has returned after writing two documents for a scan.
C14_Witness ==
    /\ ds.pc = "idle" /\ ds.status = "returned"
    /\ ds.args.custom_block = <<"A", "B">>
    /\ blockFiles = {"standard", "A", "B"}
    /\ \E c \in ds.parsed : Cardinality(WritesFor(c)) = 2

\* The positions of the rules of the table whose frame count is n.
RulesFor(n) ==
    {i \in 1..Len(config.dummy_scan_rules) : config.dummy_scan_rules[i].frames = n}

\* C15: discard-frame lookup.  The discard count of a record the extractor
\* wrote is, for a concrete frame count n, the dummy value of the first rule
\* in table order whose frames equals n and otherwise the configured default
\* (2 when none is configured); for the not-applicable sentinel it is the
\* configured default.  200 frames with an empty table gives 2.
C15_DiscardLookup ==
    \A stem \in AllStems :
        records[stem].kind = "auto" =>
            /\ records[stem].discard =
                 (IF records[stem].frames # NA /\ RulesFor(records[stem].frames) # {}
                  THEN config.dummy_scan_rules[
                           CHOOSE i \in RulesFor(records[stem].frames) :
                               \A j \in RulesFor(records[stem].frames) : i <= j].dummy
                  ELSE config.default_dummy)
            /\ config = default_cfg => records[stem].discard = 2

\* With a table of two rules for 200 frames, a record for a scan of 200
\* frames was written with the first rule's count, and one for a scan
\* without a frame count with the default.
C15_Witness ==
    /\ config = site_cfg
    /\ \E stem \in AllStems :
         /\ records[stem].kind = "auto"
         /\ records[stem].frames = 200
         /\ records[stem].discard = 4
    /\ \E stem \in AllStems :
         /\ records[stem].kind = "auto"
         /\ records[stem].frames = NA
         /\ records[stem].discard = 3

\* The files the running (or last) extractor call visits and accepts as
\* scans, as positions of its walking order.
AcceptedScans ==
    {i \in 1..Len(ExtractOrder(ex.args.subjects_filter)) :
        Selection(ExtractOrder(ex.args.subjects_filter)[i], ex.args) = "scan"}
ScanAt(i) == ExtractOrder(ex.args.subjects_filter)[i]
ExtractReturned == ex.pc = "idle" /\ ex.status = "returned"

\* C16: per-file failure isolation.  A header read that raises does not end
\* the extractor call: the call goes on with the next file, a call ends by
\* an exception only for a null among its run filters, and when the call has
\* returned every accepted scan whose header can be read has a
\* configuration record, whatever its subject or session.
C16_FailureIsolation ==
    /\ exLast.acted /\ exLast.loaded /\ ~exLast.wrote => ex.pc = "run"
    /\ ex.status = "raised" => NoRun \in Range(ex.args.run_filters)
    /\ ExtractReturned =>
         \A i \in AcceptedScans :
             ~ScanAt(i).hdr.raises => ConfigExists(Stem(ScanAt(i)))

\* A call has returned in which the header of one scan raised and a scan
\* visited after it got its record written.
C16_Witness ==
    /\ ExtractReturned
    /\ \E i, j \in AcceptedScans :
         /\ i < j
         /\ ScanAt(i).hdr.raises
         /\ ~ConfigExists(Stem(ScanAt(i)))
         /\ Stem(ScanAt(j)) \in ex.written

\* C17: header-reader failure degrades to defaults.  When the extractor
\* call has returned, an accepted scan whose header read raised has a
\* configuration record, either one that existed before or one carrying the
\* configured default discard count.
C17_DegradesToDefaults ==
    ExtractReturned =>
        \A i \in AcceptedScans :
            ScanAt(i).hdr.raises =>
                /\ ConfigExists(Stem(ScanAt(i)))
                /\ records[Stem(ScanAt(i))].kind = "auto"
                   => records[Stem(ScanAt(i))].discard = config.default_dummy

\* The text parse_subjects_arg splits: the file's content when the one
\* token names a regular file, else every token of the argument.
SplitTexts ==
    LET a == pf.subjects_arg
        given == IF a.kind = "none" THEN <<>>
                 ELSE IF a.kind = "str" THEN <<a.text>> ELSE a.items
        nonblank == SelectSeq(given, LAMBDA t :
                        a.kind = "str" \/ \E i \in 1..Len(t) : t[i] \notin Whitespace)
    IN  IF Len(nonblank) = 1 /\ pf.files.exists
           /\ (IF a.kind = "str" THEN nonblank[1] ELSE strip(nonblank[1]))
              = P_subjects_file
        THEN <<pf.files.raw>>
        ELSE given

\* The split yields no identifier: the text holds commas and whitespace only.
NoIdentifier ==
    \A i \in 1..Len(SplitTexts) : \A k \in 1..Len(SplitTexts[i]) :
        SplitTexts[i][k] \in Whitespace \cup {","}

\* C18: the Subject Resolver never returns an empty list.  For every input
\* whose split yields no identifier (null, an empty iterable, tokens that
\* are empty or only commas and whitespace, an empty file)
\* parse_subjects_arg returns null, and a result that is not null is a
\* non-empty list of non-empty identifiers without a comma and without
\* whitespace at either end.
C18_NeverEmptyList ==
    pf.fn = "subjects" /\ pf.pc = "done" =>
        /\ NoIdentifier <=> ~pf.ret.isList
        /\ pf.ret.isList =>
             /\ pf.ret.items # <<>>
             /\ \A i \in 1..Len(pf.ret.items) :
                  /\ pf.ret.items[i] # <<>>
                  /\ pf.ret.items[i][1] \notin Whitespace
                  /\ pf.ret.items[i][Len(pf.ret.items[i])] \notin Whitespace
                  /\ \A k \in 1..Len(pf.ret.items[i]) : pf.ret.items[i][k] # ","

\* Two tokens of commas and blanks only were resolved to null.
C18_Witness ==
    /\ pf.fn = "subjects" /\ pf.pc = "done"
    /\ pf.subjects_arg.kind = "list"
    /\ pf.subjects_arg.items = << <<",", " ", ",">>, <<" ">> >>
    /\ ~pf.ret.isList

\* C19: the Subject Resolver returns distinct identifiers.  A result of
\* parse_subjects_arg that is not null holds each subject identifier at most
\* once.
C19_Distinct ==
    pf.fn = "subjects" /\ pf.pc = "done" /\ pf.ret.isList =>
        \A i, j \in 1..Len(pf.ret.items) :
            i # j => pf.ret.items[i] # pf.ret.items[j]

\* The stage calls of the invocation made for a subject, in order.
InvokedFor(subject) == SelectSeq(pipe.invoked, LAMBDA c : c[2] = subject)

\* C20: pipeline call structure.  When a pipeline invocation with at least
\* one selected subject has come to its end uninterrupted, it has invoked
\* motion-outlier detection, skull-stripping and parameter extraction
\* exactly once for every selected subject, in that order and in the order
\* of the subjects, design synthesis exactly once per subject and task, and
\* the dispatcher for the first level exactly once per subject.
C20_CallStructure ==
    (/\ argv.prog = "run_pipeline"
     /\ ~parse_runs_raises(argv.run)
     /\ subject_iter(argv.subjects) # <<>>
     /\ pipe.calls >= 1
     /\ pipe.pc = "idle"
     /\ pipe.status \in {"returned", "raised"})
    => /\ SelectSeq(pipe.invoked, LAMBDA c : c[1] = "motion_outliers")
          = [i \in 1..Len(subject_iter(argv.subjects)) |->
               <<"motion_outliers", subject_iter(argv.subjects)[i]>>]
       /\ \A s \in Range(subject_iter(argv.subjects)) :
            /\ \A stage \in {"synthstrip", "extract_parameters"} :
                 Occurrences(<<stage, s>>, pipe.invoked)
                 = Occurrences(s, subject_iter(argv.subjects))
            /\ \A i \in 1..Len(argv.task) :
                 Occurrences(<<"generate_design_files", s, argv.task[i]>>,
                             pipe.invoked)
                 = Occurrences(s, subject_iter(argv.subjects))
            /\ Occurrences(<<"run_feat", s, "first_level">>, pipe.invoked)
               = Occurrences(s, subject_iter(argv.subjects))

\* A pipeline invocation with a selected subject has come to its end
\* uninterrupted.
PipeEnded ==
    /\ argv.prog = "run_pipeline"
    /\ ~parse_runs_raises(argv.run)
    /\ subject_iter(argv.subjects) # <<>>
    /\ pipe.calls >= 1
    /\ pipe.pc = "idle"
    /\ pipe.status \in {"returned", "raised"}

\* C21: instance log file.  When a pipeline invocation has come to its end,
\* the lines it logged are in one file, which is no subject's own log; the
\* file opens with the marker "Begin pipeline run", holds the Begin marker
\* of every selected subject, and closes with "End pipeline run".
C21_InstanceLog ==
    PipeEnded =>
        /\ Cardinality({pipe.log[i][1] : i \in 1..Len(pipe.log)}) = 1
        /\ \A i \in 1..Len(pipe.log) : pipe.log[i][1] \notin Subjects
        /\ pipe.log[1][2] = "Begin pipeline run"
        /\ \A s \in Range(subject_iter(argv.subjects)) :
             \E i \in 1..Len(pipe.log) : pipe.log[i] = <<pipe.log[1][1], s, "Begin">>
        /\ pipe.log[Len(pipe.log)][2] = "End pipeline run"

\* C22: motion-outlier worker failures propagate.  When
\* run_motion_outliers.main has come to its end and process_file raised for
\* one of its scans, main has ended by raising.
C22_WorkerFailurePropagates ==
    /\ mo.pc = "idle"
    /\ mo.status \in {"returned", "raised"}
    /\ \E k \in 1..Len(mo.tasks) : mo.tasks[k].raised
    => mo.status = "raised"

\* C23: no partial cancellation.  When a dispatcher call has raised the
\* failure of one job to its caller, every job it submitted has run
\* _run_single_feat to its end: each has decided to skip or to run, and
\* each external process that was to be started has been started and has
\* exited.  While the failure is on its way out no job goes back to the
\* queue or loses its outcome.
C23_NoPartialCancellation ==
    /\ [](rf.pc = "idle" /\ rf.status = "raised" =>
            \A i \in 1..Len(rf.jobs) :
                /\ rf.jobs[i].st = "done"
                /\ rf.jobs[i].decision \in {"skip", "run"}
                /\ rf.jobs[i].decision = "run" /\ ~rf.dry_run => rf.jobs[i].started)
    /\ [][rf.pc = "raising" =>
            \A i \in 1..Len(rf.jobs) :
                /\ rf.jobs[i].st = "done" => rf'.jobs[i] = rf.jobs[i]
                /\ rf.jobs[i].st = "exec" => rf'.jobs[i].st # "queued"]_vars

\* A call has raised for its first job with one worker, and a later job
\* that the loop never collected was started and ran to its end.
C23_Witness ==
    /\ rf.pc = "idle" /\ rf.status = "raised"
    /\ rf.max_workers = 1
    /\ Len(rf.jobs) >= 2
    /\ rf.jobs[1].rc # 0
    /\ \E i \in 2..Len(rf.jobs) :
         rf.jobs[i].started /\ ~rf.jobs[i].collected /\ rf.jobs[i].st = "done"

\* The positions of a stage call in the calls the invocation has made.
PositionsOf(call) == {i \in 1..Len(pipe.invoked) : pipe.invoked[i] = call}

C25_PairsCompletedOutputs ==
    \A i \in 1..Len(hl.outcomes) :
        hl.outcomes[i].kind = "pair" =>
            /\ feat_is_complete(outs[hl.outcomes[i].path_a])
            /\ feat_is_complete(outs[hl.outcomes[i].path_b])

\* The characters after the key in a subject or session directory name.
LabelChars(label) ==
    CASE label \in {"sub-001", "ses-001"} -> <<"0", "0", "1">>
      [] label \in {"sub-002", "ses-002"} -> <<"0", "0", "2">>

\* What the Entity Parser reads from the name of a scan file of the tree.
EntitiesOfScan(f) ==
    parse_bids_entities(ScanName([subject |-> LabelChars(f.sub),
                                  session |-> LabelChars(f.ses),
                                  task |-> f.task, run |-> f.run]))

\* The Filter Matcher accepts a scan file under the filters of the
\* extractor call.
MatcherAccepts(f) ==
    match_filters(EntitiesOfScan(f), <<>>, ex.args.task_filters,
                  ex.args.run_filters, <<>>)

\* C26: extractor selection equals the Filter Matcher.  When an extractor
\* call has come to its end, every scan file it visited that the Filter
\* Matcher accepts and whose header can be read has a configuration record,
\* and every record the call wrote is for a scan the Filter Matcher accepts.
C26_SelectionEqualsMatcher ==
    ex.pc = "idle" /\ ex.status \in {"returned", "raised"} =>
        \A i \in 1..Len(ExtractOrder(ex.args.subjects_filter)) :
            ScanAt(i).bold =>
                /\ MatcherAccepts(ScanAt(i)) /\ ~ScanAt(i).hdr.raises
                   => ConfigExists(Stem(ScanAt(i)))
                /\ Stem(ScanAt(i)) \in ex.written => MatcherAccepts(ScanAt(i))

\* C27: no-run-label requests are handled by the Design Synthesizer.  When
\* a call whose requested run list contains null has come to its end, it has
\* returned, and every (subject, session) it asked the no-run-label scan of
\* was either skipped because the record is absent or had its record parsed
\* for the design document.
C27_NoRunLabelHandled ==
    ds.pc = "idle" /\ ds.status # "none" /\ NoRun \in Range(ds.args.runs) =>
        /\ ds.status = "returned"
        /\ \A i \in 1..Len(ds.combos) :
             ds.combos[i].run = NoRun =>
                 \/ ~ConfigExists(ComboStem(ds.combos[i], ds.args.task))
                 \/ ds.combos[i] \in ds.parsed

\* A dimension of one expected value accepts: no filter is supplied, or the
\* entity is not null and the filter names it, with or without the key.
OneValueAccepts(value, filter, key) ==
    \/ filter = <<>>
    \/ value # <<>> /\ filter \in {value, key \o value}

\* A dimension of listed values accepts: no list is supplied, or the entity
\* equals one of the listed values.
ListAccepts(value, list) ==
    \/ list = <<>>
    \/ \E i \in 1..Len(list) : list[i] = value

\* C28: match_filters combination policy.  The result is the conjunction
\* over the subject, session, task and run dimensions; a listed dimension
\* accepts an entity equal to any listed value; a dimension that is not
\* supplied accepts every value, null included; a supplied task filter
\* rejects a null task.
C28_CombinationPolicy ==
    pf.fn = "bids" /\ pf.pc = "matched" =>
        pf.accepted =
            (/\ OneValueAccepts(pf.ents.subject, pf.filters.subject, K_sub)
             /\ OneValueAccepts(pf.ents.session, pf.filters.session, K_ses)
             /\ pf.ents.task # <<>> \/ pf.filters.task_filters = <<>>
             /\ ListAccepts(pf.ents.task, pf.filters.task_filters)
             /\ ListAccepts(pf.ents.run, pf.filters.run_filters))

\* A path with no subject and no session was accepted by a task filter and
\* a run filter with no subject or session filter supplied.
C28_Witness ==
    /\ pf.fn = "bids" /\ pf.pc = "matched"
    /\ pf.ents.subject = <<>> /\ pf.ents.session = <<>>
    /\ pf.filters.subject = <<>> /\ pf.filters.session = <<>>
    /\ pf.filters.task_filters = <<T_rest, T_hand>>
    /\ pf.filters.run_filters = <<1, NoRun>>
    /\ pf.ents.task = T_hand /\ pf.ents.run = 1
    /\ pf.accepted

\* The values of the key-value tokens of a string for a key: the token is
\* delimited on both sides by the start or end of the string, '/' or '_',
\* and the value is a non-empty run of characters of the class.
TokenValues(s, key, class) ==
    {SubSeq(s, i + Len(key), j) :
        <<i, j>> \in {t \in (1..Len(s)) \X (1..Len(s)) :
            /\ t[1] = 1 \/ s[t[1] - 1] \in Separators
            /\ t[2] = Len(s) \/ s[t[2] + 1] \in Separators
            /\ t[2] >= t[1] + Len(key)
            /\ SubSeq(s, t[1], t[1] + Len(key) - 1) = key
            /\ \A k \in (t[1] + Len(key))..t[2] : s[k] \in class}}

\* The parsed text for a key is the value of one of its well-delimited
\* tokens, or null when the string has none.
AnchoredText(value, s, key, class) ==
    IF TokenValues(s, key, class) = {} THEN value = <<>>
    ELSE value \in TokenValues(s, key, class)

\* A text of digits without the zeros it starts with, its last digit kept.
RECURSIVE WithoutLeadingZeros(_)
WithoutLeadingZeros(v) ==
    IF Len(v) > 1 /\ Head(v) = "0" THEN WithoutLeadingZeros(Tail(v)) ELSE v

P_run10 == K_sub \o <<"0", "1">> \o <<"_">> \o S_run \o <<"1", "0">> \o S_bold
P_embedded ==
    <<"x">> \o K_sub \o <<"0", "1">> \o <<"_">> \o S_task \o T_hand
    \o <<"2", "_">> \o S_run \o <<"1">>

\* C29: entity anchoring.  parse_bids_entities reports a value only from a
\* key-value token delimited on both sides by string start/end, '/' or '_',
\* and null for a key with no such token; a string whose only run token is
\* run-10 gives run 10, xsub-01 gives no subject, and task-hand2 gives the
\* task hand2.
C29_EntityAnchoring ==
    pf.fn = "bids" /\ pf.pc # "path" =>
        /\ AnchoredText(pf.ents.subject, pf.path, K_sub, AlnumClass)
        /\ AnchoredText(pf.ents.session, pf.path, K_ses, AlnumClass)
        /\ AnchoredText(pf.ents.task, pf.path, S_task, AlnumClass)
        /\ IF TokenValues(pf.path, S_run, DigitClass) = {}
           THEN pf.ents.run = NoRun
           ELSE \E v \in TokenValues(pf.path, S_run, DigitClass) :
                    /\ pf.ents.run # NoRun
                    /\ Digits(pf.ents.run) = WithoutLeadingZeros(v)
        /\ pf.path = P_run10 => pf.ents.run = 10
        /\ pf.path = P_embedded =>
              pf.ents.subject = <<>> /\ pf.ents.task = T_hand \o <<"2">>

\* The path xsub-01_task-hand2_run-1 was parsed: no subject, task hand2.
C29_Witness ==
    /\ pf.fn = "bids" /\ pf.pc = "parsed"
    /\ pf.path = P_embedded
    /\ pf.ents.subject = <<>>
    /\ pf.ents.task # T_hand
    /\ pf.ents.run = 1

\* How many times an invocation wrote a target path.
WritesBy(k, target) == CopiesIn(<<k, target>>, cw.log)

RECURSIVE WritesUpTo(_, _)
WritesUpTo(n, target) ==
    IF n = 0 THEN 0 ELSE WritesBy(n, target) + WritesUpTo(n - 1, target)

\* How many times a target path was written.
WritesOf(target) == WritesUpTo(Len(cw.inv), target)

RaceTargets == {w[2] : w \in BagToSet(cw.log)}

\* C30: check-then-write race.  A target path is written a second time only
\* when two invocations stood between its exists-check and its write at
\* once, each writing invocation writes it once, and with a single
\* invocation every target path is written at most once.
C30_CheckThenWrite ==
    \A target \in RaceTargets :
        /\ WritesOf(target) > 1 => target \in cw.raced
        /\ \A k \in 1..Len(cw.inv) : WritesBy(k, target) <= 1
        /\ Len(cw.inv) = 1 => WritesOf(target) <= 1

\* Two invocations both passed the exists-check for one target path and
\* both wrote it.
C30_Witness ==
    \E target \in cw.raced :
        /\ WritesOf(target) = 2
        /\ WritesBy(1, target) = 1
        /\ WritesBy(2, target) = 1

====
